---- MODULE Spec2Model ----
(***************************************************************************)
(* The persistence layer of the question bank (src/api.ts): the question   *)
(* store and the session/identity operations over browser localStorage.    *)
(*                                                                         *)
(* Every api call is an async function.  A call runs synchronously up to   *)
(* its first await of delay(ms), which arms a timer; when the timer fires  *)
(* (a task of the event loop) the continuation runs as a microtask, and    *)
(* every further await of an already settled promise is one more microtask *)
(* of the same checkpoint.  Tasks (a call started by a UI event, a timer   *)
(* firing) run only when no microtask is queued.                           *)
(***************************************************************************)
EXTENDS Integers, Sequences, FiniteSets, Bags, TLC

\* ------------------------------------------------------------- bounds
MaxPending == 2

\* ---------------------------------------------------------- constants
DB_QUESTIONS == "math_v4_questions"
DB_USERS == "math_v4_users"
SESSION_KEY == "math_v4_session"
\* The key of the single-user App's question list (utils/storage).
STORAGE_KEY == "latex_question_bank"
StorageKeys == {DB_QUESTIONS, DB_USERS, SESSION_KEY, STORAGE_KEY}

\* delay(ms) of each async function
DELAY_REGISTER == 600
DELAY_LOGIN == 500
DELAY_FETCH == 400

\* The literal both halves of the superuser pair are compared with.
ADMIN_LITERAL == "admin"
ADMIN_ID == "admin-001"

\* new Error(...) messages; the source literals are Chinese text:
\* "username already exists" and "wrong username or password".
ERR_USERNAME_EXISTS == "DuplicateUsername"
ERR_BAD_CREDENTIALS == "InvalidCredentials"

\* ------------------------------------------------------- input domains
QuestionIds == {"q1", "q2", "q3"}
OwnerIds == {"u1", "u2"}
\* A Question: id, userId (the owner) and content (standing for every field
\* the store never inspects: content, latex, tags, category, ...).  Each
\* owner submits a text of its own, so two questions with one id differ in
\* owner and in content.
ContentOf(userId) == IF userId = "u1" THEN "a" ELSE "b"
Questions ==
    { [id |-> id, userId |-> u, content |-> ContentOf(u)] :
          id \in QuestionIds, u \in OwnerIds }
\* The fields of a User that deleteQuestion reads.
Operators ==
    { [id |-> "u1", role |-> "user"],
      [id |-> "u2", role |-> "admin"],
      [id |-> ADMIN_ID, role |-> "admin"] }
Usernames == {"admin", "bob"}
Secrets == {"admin", "pw"}
\* Math.random().toString(36).substr(2, 9): digits and lower-case letters,
\* never the hyphenated ADMIN_ID; two draws may collide.
GeneratedIds == {"u1", "u2"}

VARIABLES
    localStorage,   \* key -> <<>> (no item) or <<value>> (the stored blob)
    pending,        \* the api calls in flight, in the order they were started
    lastCall        \* the api call the step just taken settled (NoCall when
                    \* it settled none): its arguments, its result, the keys
                    \* it read and wrote, localStorage before its last step

\* The OCR intake page (App, src/unnamed/part_002).
VARIABLES
    app,              \* which App is running: "single" (retry-capable) or "multi"
    uploadFiles,      \* useState: the files chosen for the next batch
    isUploading,      \* useState: a startOCR batch is running
    batch,            \* the running startOCR call: its position and its local
                      \* results array
    ocrCalls,         \* the performOCR calls in flight (a bag)
    processedResults, \* useState: the draft list, every queued updater applied
    rendered,         \* the draft list of the last committed render: what the
                      \* controls show and what the handlers of that render
                      \* closed over
    armed,            \* indexes whose LatexRenderer has its 50 ms timer armed
    typesets,         \* the MathJax typesetPromise calls in flight (a bag),
                      \* each with the onError closure of the render that
                      \* started it
    retryCalls,       \* per draft index: retry performOCR calls issued so far
    saving,           \* multi-user: the drafts with a saveSingle awaiting its call
    clearTimer,       \* the 1500 ms setTimeout of saveSingle is armed
    notified,         \* the messages the step just taken passed to
                      \* addNotification
    lastEvent         \* the handler the step just taken ran, and its outcome

\* Pure functions of the services and utilities, applied to one input.
VARIABLES
    input,            \* the arguments
    output            \* slot -> <<>> (not applied yet) or <<result>>

\* The question bank page and the paper builder (App, part_002).
VARIABLES
    questions,          \* useState: the question list last read from storage
    selectedQuestions   \* useState: the ids selected for the paper

apiVars == <<localStorage, pending, lastCall>>
pageVars == <<app, uploadFiles, isUploading, batch, ocrCalls, processedResults,
              rendered, armed, typesets, retryCalls, saving, clearTimer,
              notified, lastEvent>>
pureVars == <<input, output>>
bankVars == <<questions, selectedQuestions>>
vars == <<apiVars, pageVars, pureVars, bankVars>>

NoQuestion == [id |-> "", userId |-> "", content |-> ""]
NoOperator == [id |-> "", role |-> ""]

\* An async call, suspended at `await delay(ms)`.
NewCall(op, ms) ==
    [ op |-> op, delay |-> ms, pc |-> "timer",
      question |-> NoQuestion, id |-> "", operator |-> NoOperator,
      username |-> "", secret |-> "", racing |-> FALSE, draft |-> 0,
      all |-> <<>>, reads |-> {} ]

NoCall == [ call |-> NewCall("none", 0), status |-> "none", error |-> "",
            value |-> <<>>, reads |-> {}, writes |-> {},
            before |-> [k \in StorageKeys |-> <<>>] ]

\* --------------------------------------------------- storage primitives
\* localStorage.getItem(key): <<>> stands for null.
getItem(key) == localStorage[key]

\* JSON.parse(item || '[]'): a missing item reads as the empty list.
parseOrEmpty(item) == IF item = <<>> THEN <<>> ELSE item[1]

\* localStorage.setItem(key, JSON.stringify(value)) as the new storage.
setItem(key, value) == [localStorage EXCEPT ![key] = <<value>>]

\* localStorage.removeItem(key)
removeItem(key) == [localStorage EXCEPT ![key] = <<>>]

\* ------------------------------------------------------ event loop
\* A call whose continuation is queued as a microtask.
MicrotaskQueued == \E i \in 1..Len(pending) : pending[i].pc # "timer"

\* An event loop that runs a task between two queued microtasks.
TaskMayRun_always == TRUE

\* A task (UI event, timer callback) starts only on an empty microtask queue.
TaskMayRun == ~MicrotaskQueued

\* Timers fire in due-time order: the timer of a call started later fires
\* before an earlier call's only when its delay is strictly shorter.
TimerMayFire(i) ==
    /\ pending[i].pc = "timer"
    /\ \A j \in 1..(i - 1) :
           pending[j].pc = "timer" => pending[j].delay > pending[i].delay

RemoveAt(s, i) == SubSeq(s, 1, i - 1) \o SubSeq(s, i + 1, Len(s))

Settle(i, status, error, value, reads, writes) ==
    /\ pending' = RemoveAt(pending, i)
    /\ lastCall' = [ call |-> pending[i], status |-> status, error |-> error,
                     value |-> value, reads |-> reads, writes |-> writes,
                     before |-> localStorage ]

\* setTimeout callback of delay(ms): resolves the promise, which queues the
\* continuation of the function that awaits it.
timerFires(i) ==
    /\ TaskMayRun
    /\ TimerMayFire(i)
    /\ pending' = [pending EXCEPT ![i].pc = "resume"]
    /\ lastCall' = NoCall
    /\ UNCHANGED localStorage

\* ------------------------------------------------------ question store
\* findIndex of a store that never looks the identifier up.
findIndex_absent(all, id) == -1

\* Array.prototype.findIndex(q => q.id === id): 0-based, -1 when absent.
findIndex(all, id) ==
    IF \E i \in 1..Len(all) : all[i].id = id
    THEN (CHOOSE i \in 1..Len(all) :
             /\ all[i].id = id
             /\ \A j \in 1..(i - 1) : all[j].id # id) - 1
    ELSE -1

\* filter as the legacy remove by identifier alone would run it.
RECURSIVE filter_byIdOnly(_, _, _)
filter_byIdOnly(all, id, operator) ==
    IF all = <<>> THEN <<>>
    ELSE LET q == Head(all)
         IN  (IF q.id # id THEN <<q>> ELSE <<>>)
                 \o filter_byIdOnly(Tail(all), id, operator)

\* filter with the owner test dropped from the predicate.
RECURSIVE filter_adminOnly(_, _, _)
filter_adminOnly(all, id, operator) ==
    IF all = <<>> THEN <<>>
    ELSE LET q == Head(all)
             isAdmin == operator.role = "admin"
         IN  (IF ~(q.id = id /\ isAdmin) THEN <<q>> ELSE <<>>)
                 \o filter_adminOnly(Tail(all), id, operator)

\* The predicate of deleteQuestion under Array.prototype.filter.
RECURSIVE filter(_, _, _)
filter(all, id, operator) ==
    IF all = <<>> THEN <<>>
    ELSE LET q == Head(all)
             isOwner == q.userId = operator.id
             isAdmin == operator.role = "admin"
             keep == ~(q.id = id /\ (isOwner \/ isAdmin))
         IN  (IF keep THEN <<q>> ELSE <<>>) \o filter(Tail(all), id, operator)

\* upsert with push in place of unshift.
upsert_push(all, question) ==
    LET existingIndex == findIndex(all, question.id)
    IN  IF existingIndex > -1
        THEN [all EXCEPT ![existingIndex + 1] = question]
        ELSE all \o <<question>>

\* upsert as the legacy store saves: unshift whatever the list holds.
upsert_alwaysUnshift(all, question) == <<question>> \o all

\* The list saveQuestion writes back.
upsert(all, question) ==
    LET existingIndex == findIndex(all, question.id)
    IN  IF existingIndex > -1
        THEN [all EXCEPT ![existingIndex + 1] = question]
        ELSE <<question>> \o all

\* A saveQuestion or deleteQuestion call has been started and has not
\* completed (recorded in a new write call as racing).
WriteInFlight ==
    \E j \in 1..Len(pending) :
        pending[j].op \in {"saveQuestion", "deleteQuestion"}

fetchAllQuestionsCall ==
    /\ TaskMayRun
    /\ Len(pending) < MaxPending
    /\ pending' = Append(pending, NewCall("fetchAllQuestions", DELAY_FETCH))
    /\ lastCall' = NoCall
    /\ UNCHANGED localStorage

saveQuestionCall(question) ==
    /\ TaskMayRun
    /\ Len(pending) < MaxPending
    /\ pending' = Append(pending,
           [NewCall("saveQuestion", DELAY_FETCH) EXCEPT
               !.question = question, !.racing = WriteInFlight])
    /\ lastCall' = NoCall
    /\ UNCHANGED localStorage

deleteQuestionCall(id, operator) ==
    /\ TaskMayRun
    /\ Len(pending) < MaxPending
    /\ pending' = Append(pending,
           [NewCall("deleteQuestion", DELAY_FETCH) EXCEPT
               !.id = id, !.operator = operator, !.racing = WriteInFlight])
    /\ lastCall' = NoCall
    /\ UNCHANGED localStorage

\* The continuation of fetchAllQuestions after its delay: reads the list and
\* resolves; a caller awaiting it (saveQuestion, deleteQuestion) is queued.
fetchAllQuestionsResume(i) ==
    /\ pending[i].pc = "resume"
    /\ pending[i].op \in {"fetchAllQuestions", "saveQuestion", "deleteQuestion"}
    /\ LET all == parseOrEmpty(getItem(DB_QUESTIONS))
       IN  IF pending[i].op = "fetchAllQuestions"
           THEN Settle(i, "ok", "", <<all>>, {DB_QUESTIONS}, {})
           ELSE /\ pending' = [pending EXCEPT ![i].pc = "body",
                                              ![i].all = all,
                                              ![i].reads = {DB_QUESTIONS}]
                /\ lastCall' = NoCall
    /\ UNCHANGED localStorage

saveQuestionResume(i) ==
    /\ pending[i].pc = "body"
    /\ pending[i].op = "saveQuestion"
    /\ localStorage' = setItem(DB_QUESTIONS,
                               upsert(pending[i].all, pending[i].question))
    /\ Settle(i, "ok", "", <<>>, pending[i].reads, {DB_QUESTIONS})

deleteQuestionResume(i) ==
    /\ pending[i].pc = "body"
    /\ pending[i].op = "deleteQuestion"
    /\ localStorage' = setItem(DB_QUESTIONS,
           filter(pending[i].all, pending[i].id, pending[i].operator))
    /\ Settle(i, "ok", "", <<>>, pending[i].reads, {DB_QUESTIONS})

\* The page before any file is chosen (the useState initial values).
\* started: how many batches have been started on this page so far.
NoBatch ==
    [pc |-> "idle", file |-> 0, files |-> <<>>, results |-> <<>>,
     calls |-> <<>>, started |-> 0]
NoEvent == [kind |-> "", idx |-> 0, branch |-> "", gone |-> FALSE]
NoInput == [fn |-> ""]
Slots == {"plain", "retry", "export", "card"}

InitPage ==
    /\ uploadFiles = <<>>
    /\ isUploading = FALSE
    /\ batch = NoBatch
    /\ ocrCalls = EmptyBag
    /\ processedResults = <<>>
    /\ rendered = <<>>
    /\ armed = {}
    /\ typesets = EmptyBag
    /\ retryCalls = <<>>
    /\ saving = {}
    /\ clearTimer = FALSE
    /\ notified = <<>>
    /\ lastEvent = NoEvent

\* An empty bank, before the effect that reads it, and an empty selection.
InitBank ==
    /\ questions = <<>>
    /\ selectedQuestions = {}

InitApi ==
    /\ localStorage = [k \in StorageKeys |-> <<>>]
    /\ pending = <<>>
    /\ lastCall = NoCall

InitPure ==
    /\ input = NoInput
    /\ output = [s \in Slots |-> <<>>]

Init ==
    /\ InitApi
    /\ app = "multi"
    /\ InitPage
    /\ InitBank
    /\ InitPure

NextStore ==
    /\ UNCHANGED <<pageVars, pureVars, bankVars>>
    /\ \/ fetchAllQuestionsCall
       \/ \E question \in Questions : saveQuestionCall(question)
       \/ \E id \in QuestionIds, operator \in Operators :
              deleteQuestionCall(id, operator)
       \/ \E i \in 1..Len(pending) : timerFires(i)
       \/ \E i \in 1..Len(pending) : fetchAllQuestionsResume(i)
       \/ \E i \in 1..Len(pending) : saveQuestionResume(i)
       \/ \E i \in 1..Len(pending) : deleteQuestionResume(i)

SpecStore == Init /\ [][NextStore]_vars

\* --------------------------------------------------- session / identity
\* users.find(u => u.username === username) of register, as a truth value.
usernameTaken_matchSecretToo(users, username, secret) ==
    \E k \in 1..Len(users) :
        users[k].username = username /\ users[k].secret = secret

\* The same find comparing the wrong field of the record.
usernameTaken_wrongField(users, username, secret) ==
    \E k \in 1..Len(users) : users[k].id = username

usernameTaken(users, username, secret) ==
    \E k \in 1..Len(users) : users[k].username = username

\* The role expression of register with || in place of &&.
registerRole_either(username, secret) ==
    IF username = ADMIN_LITERAL \/ secret = ADMIN_LITERAL
    THEN "admin" ELSE "user"

\* role: (username === 'admin' && secret === 'admin') ? 'admin' : 'user'
registerRole(username, secret) ==
    IF username = ADMIN_LITERAL /\ secret = ADMIN_LITERAL
    THEN "admin" ELSE "user"

\* Identifiers register may draw when it hands the reserved identifier to
\* the record registered with the superuser pair.
newUserIds_reservedForAdmin(username, secret) ==
    IF username = ADMIN_LITERAL /\ secret = ADMIN_LITERAL
    THEN {ADMIN_ID} ELSE GeneratedIds

\* id: Math.random().toString(36).substr(2, 9)
newUserIds(username, secret) == GeneratedIds

\* The superuser test of login comparing the secret with another literal.
isSuperAdmin_otherSecret(username, secret) ==
    username = ADMIN_LITERAL /\ secret = "pw"

\* username === 'admin' && secret === 'admin'
isSuperAdmin(username, secret) ==
    username = ADMIN_LITERAL /\ secret = ADMIN_LITERAL

\* The synthetic identity login returns for the superuser pair; it has no
\* secret property.
admin == [id |-> ADMIN_ID, username |-> "admin", role |-> "admin"]

\* The find of login matching on the username alone.
loginFind_usernameOnly(users, username, secret) ==
    LET hits == {k \in 1..Len(users) : users[k].username = username}
    IN  IF hits = {} THEN <<>>
        ELSE <<users[CHOOSE k \in hits : \A h \in hits : k <= h]>>

\* users.find(u => u.username === username && u.secret === secret):
\* <<>> stands for undefined, <<u>> for the first match.
loginFind(users, username, secret) ==
    LET hits == {k \in 1..Len(users) :
                    users[k].username = username /\ users[k].secret = secret}
    IN  IF hits = {} THEN <<>>
        ELSE <<users[CHOOSE k \in hits : \A h \in hits : k <= h]>>

registerCall(username, secret) ==
    /\ TaskMayRun
    /\ Len(pending) < MaxPending
    /\ pending' = Append(pending,
           [NewCall("register", DELAY_REGISTER) EXCEPT
               !.username = username, !.secret = secret,
               !.racing = \E j \in 1..Len(pending) :
                              /\ pending[j].op = "register"
                              /\ pending[j].username = username])
    /\ lastCall' = NoCall
    /\ UNCHANGED localStorage

\* register after its delay: read, check, push and write in one run.
registerResume(i) ==
    /\ pending[i].pc = "resume"
    /\ pending[i].op = "register"
    /\ LET username == pending[i].username
           secret == pending[i].secret
           users == parseOrEmpty(getItem(DB_USERS))
       IN  IF usernameTaken(users, username, secret)
           THEN /\ Settle(i, "error", ERR_USERNAME_EXISTS, <<>>, {DB_USERS}, {})
                /\ UNCHANGED localStorage
           ELSE \E id \in newUserIds(username, secret) :
                    LET newUser == [ id |-> id, username |-> username,
                                     secret |-> secret,
                                     role |-> registerRole(username, secret) ]
                    IN  /\ localStorage' =
                               setItem(DB_USERS, Append(users, newUser))
                        /\ Settle(i, "ok", "", <<newUser>>,
                                  {DB_USERS}, {DB_USERS})

loginCall(username, secret) ==
    /\ TaskMayRun
    /\ Len(pending) < MaxPending
    /\ pending' = Append(pending,
           [NewCall("login", DELAY_LOGIN) EXCEPT
               !.username = username, !.secret = secret])
    /\ lastCall' = NoCall
    /\ UNCHANGED localStorage

\* login after its delay.
loginResume(i) ==
    /\ pending[i].pc = "resume"
    /\ pending[i].op = "login"
    /\ LET username == pending[i].username
           secret == pending[i].secret
       IN  IF isSuperAdmin(username, secret)
           THEN Settle(i, "ok", "", <<admin>>, {}, {})
           ELSE LET users == parseOrEmpty(getItem(DB_USERS))
                    user == loginFind(users, username, secret)
                IN  IF user = <<>>
                    THEN Settle(i, "error", ERR_BAD_CREDENTIALS, <<>>,
                                {DB_USERS}, {})
                    ELSE Settle(i, "ok", "", user, {DB_USERS}, {})
    /\ UNCHANGED localStorage

\* setSession(user): user is <<>> for null, <<u>> for a User.
setSession(user) ==
    /\ TaskMayRun
    /\ localStorage' = IF user # <<>> THEN setItem(SESSION_KEY, user[1])
                                      ELSE removeItem(SESSION_KEY)
    /\ lastCall' = NoCall
    /\ UNCHANGED pending

\* What the application passes to setSession: the User a login or register
\* just resolved with (handleAuth), or null (handleLogout).
SessionArguments ==
    {<<>>} \cup (IF /\ lastCall.call.op \in {"login", "register"}
                    /\ lastCall.status = "ok"
                 THEN {lastCall.value} ELSE {})

NextAuth ==
    /\ UNCHANGED <<pageVars, pureVars, bankVars>>
    /\ \/ \E username \in Usernames, secret \in Secrets :
              registerCall(username, secret)
       \/ \E username \in Usernames, secret \in Secrets :
              loginCall(username, secret)
       \/ \E user \in SessionArguments : setSession(user)
       \/ \E i \in 1..Len(pending) : timerFires(i)
       \/ \E i \in 1..Len(pending) : registerResume(i)
       \/ \E i \in 1..Len(pending) : loginResume(i)

SpecAuth == Init /\ [][NextAuth]_vars

\* ------------------------------------------------- question store claims
\* What fetchAllQuestions returns from the current storage, and what it would
\* have returned before the last step of the call that just settled.
StoredQuestions == parseOrEmpty(getItem(DB_QUESTIONS))
QuestionsBefore == parseOrEmpty(lastCall.before[DB_QUESTIONS])

PositionsOf(list, id) == {i \in 1..Len(list) : list[i].id = id}

SavedFresh ==
    /\ lastCall.call.op = "saveQuestion"
    /\ PositionsOf(QuestionsBefore, lastCall.call.question.id) = {}

SavedExisting ==
    /\ lastCall.call.op = "saveQuestion"
    /\ PositionsOf(QuestionsBefore, lastCall.call.question.id) # {}

\* C1: after saveQuestion(q) with an id the store did not hold, the stored
\* list holds exactly one record with q.id, it is q at position 0, and the
\* records stored before follow it in their previous order.
C1_FreshSaveIsFirst ==
    SavedFresh =>
        LET q == lastCall.call.question
        IN  /\ Cardinality(PositionsOf(StoredQuestions, q.id)) = 1
            /\ StoredQuestions[1] = q
            /\ Len(StoredQuestions) = Len(QuestionsBefore) + 1
            /\ \A i \in 1..Len(QuestionsBefore) :
                   StoredQuestions[i + 1] = QuestionsBefore[i]

\* A fresh save on top of two stored records.
C1_Witness ==
    /\ SavedFresh
    /\ Len(QuestionsBefore) = 2
    /\ Len(StoredQuestions) = 3

\* C2: after saveQuestion(q) with an id the store holds, the length of the
\* list is unchanged, the record at the position of that id is q, and every
\* other record is the same record at the same position.
C2_ExistingSaveInPlace ==
    SavedExisting =>
        LET q == lastCall.call.question
        IN  /\ Len(StoredQuestions) = Len(QuestionsBefore)
            /\ \A i \in 1..Len(QuestionsBefore) :
                   StoredQuestions[i] =
                       IF QuestionsBefore[i].id = q.id THEN q
                       ELSE QuestionsBefore[i]

\* A save that rewrites the middle record of three with other content.
C2_Witness ==
    /\ SavedExisting
    /\ Len(QuestionsBefore) = 3
    /\ QuestionsBefore[2].id = lastCall.call.question.id
    /\ QuestionsBefore[2] # lastCall.call.question
    /\ StoredQuestions[2] = lastCall.call.question

\* deleteQuestion(id, operator) settled, and operator neither owns a stored
\* question with that id nor is an admin.
DeletedUnauthorized ==
    /\ lastCall.call.op = "deleteQuestion"
    /\ lastCall.call.operator.role # "admin"
    /\ \A i \in PositionsOf(QuestionsBefore, lastCall.call.id) :
           QuestionsBefore[i].userId # lastCall.call.operator.id

\* C3: deleteQuestion by an operator who is neither owner nor admin leaves
\* the persisted question list as it was, also with other store calls in
\* flight, and however often it is repeated.
C3_UnauthorizedDeleteNoOp ==
    DeletedUnauthorized => StoredQuestions = QuestionsBefore

\* An unauthorized delete of a stored question settles while another store
\* call is in flight.
C3_Witness ==
    /\ DeletedUnauthorized
    /\ PositionsOf(QuestionsBefore, lastCall.call.id) # {}
    /\ Len(pending) > 0

KeepOtherIds(list, id) ==
    LET Other(q) == q.id # id IN SelectSeq(list, Other)
KeepId(list, id) ==
    LET Same(q) == q.id = id IN SelectSeq(list, Same)

\* C4: deleteQuestion(id, operator) removes the question with that id exactly
\* when operator owns it or is an admin, then no record with that id is
\* left; the records with another id always stay, in their order.
C4_DeleteIffAuthorized ==
    lastCall.call.op = "deleteQuestion" =>
        LET id == lastCall.call.id
            operator == lastCall.call.operator
            Authorized(q) ==
                q.userId = operator.id \/ operator.role = "admin"
            held == PositionsOf(QuestionsBefore, id)
        IN  /\ KeepOtherIds(StoredQuestions, id) = KeepOtherIds(QuestionsBefore, id)
            /\ (\E i \in held : Authorized(QuestionsBefore[i]))
                   => PositionsOf(StoredQuestions, id) = {}
            /\ (\A i \in held : ~Authorized(QuestionsBefore[i]))
                   => KeepId(StoredQuestions, id) = KeepId(QuestionsBefore, id)
            /\ Len(StoredQuestions) =
                   Len(KeepOtherIds(StoredQuestions, id))
                       + Len(KeepId(StoredQuestions, id))

\* The owner, not an admin, deletes the middle record of three.
C4_Witness ==
    /\ lastCall.call.op = "deleteQuestion"
    /\ lastCall.call.operator.role = "user"
    /\ Len(QuestionsBefore) = 3
    /\ QuestionsBefore[2].id = lastCall.call.id
    /\ QuestionsBefore[2].userId = lastCall.call.operator.id
    /\ StoredQuestions = <<QuestionsBefore[1], QuestionsBefore[3]>>

\* ---------------------------------------------- session / identity claims
\* The stored user list as register and login read it, now and before the
\* last step of the call that just settled.
StoredUsers == parseOrEmpty(getItem(DB_USERS))
UsersBefore == parseOrEmpty(lastCall.before[DB_USERS])

UsernamesOf(users) == {users[k].username : k \in 1..Len(users)}

RegisteredDuplicate ==
    /\ lastCall.call.op = "register"
    /\ lastCall.call.username \in UsernamesOf(UsersBefore)

\* C5: register with a username the stored list already holds fails with
\* the duplicate-username error and leaves the stored user list unchanged.
C5_DuplicateRegisterFails ==
    RegisteredDuplicate =>
        /\ lastCall.status = "error"
        /\ lastCall.error = ERR_USERNAME_EXISTS
        /\ lastCall.writes = {}
        /\ localStorage = lastCall.before

\* A second registration of a stored username, with another secret, fails.
C5_Witness ==
    /\ RegisteredDuplicate
    /\ lastCall.status = "error"
    /\ \E k \in 1..Len(UsersBefore) :
           /\ UsersBefore[k].username = lastCall.call.username
           /\ UsersBefore[k].secret # lastCall.call.secret

RegisteredOk ==
    /\ lastCall.call.op = "register"
    /\ lastCall.status = "ok"

\* C6: a successful register appends exactly one record to the end of the
\* stored user list; its role is admin exactly when username and secret are
\* both 'admin', and user otherwise.
C6_RegisterAppendsWithRole ==
    RegisteredOk =>
        LET new == StoredUsers[Len(StoredUsers)]
            both == /\ lastCall.call.username = "admin"
                    /\ lastCall.call.secret = "admin"
        IN  /\ Len(StoredUsers) = Len(UsersBefore) + 1
            /\ SubSeq(StoredUsers, 1, Len(UsersBefore)) = UsersBefore
            /\ new.username = lastCall.call.username
            /\ new.secret = lastCall.call.secret
            /\ new.role = IF both THEN "admin" ELSE "user"
            /\ lastCall.value = <<new>>

\* 'admin' registers with another secret after another user: appended last,
\* with role user.
C6_Witness ==
    /\ RegisteredOk
    /\ Len(UsersBefore) = 1
    /\ lastCall.call.username = "admin"
    /\ lastCall.call.secret # "admin"
    /\ StoredUsers[2].role = "user"

LoggedInAsSuperuser ==
    /\ lastCall.call.op = "login"
    /\ lastCall.call.username = "admin"
    /\ lastCall.call.secret = "admin"

\* C7: login('admin', 'admin') succeeds whatever the stored user list holds,
\* returns an identity with role admin, and neither reads nor writes the
\* stored user list.
C7_SuperuserLoginBypassesStorage ==
    LoggedInAsSuperuser =>
        /\ lastCall.status = "ok"
        /\ Len(lastCall.value) = 1
        /\ lastCall.value[1].role = "admin"
        /\ lastCall.reads = {}
        /\ lastCall.writes = {}
        /\ localStorage = lastCall.before

\* The superuser logs in while the list holds a user named admin with
\* another secret.
C7_Witness ==
    /\ LoggedInAsSuperuser
    /\ lastCall.status = "ok"
    /\ \E k \in 1..Len(StoredUsers) :
           /\ StoredUsers[k].username = "admin"
           /\ StoredUsers[k].secret # "admin"

LoggedInOrdinary ==
    /\ lastCall.call.op = "login"
    /\ ~(lastCall.call.username = "admin" /\ lastCall.call.secret = "admin")

ExactMatches ==
    {k \in 1..Len(UsersBefore) :
        /\ UsersBefore[k].username = lastCall.call.username
        /\ UsersBefore[k].secret = lastCall.call.secret}

\* C8: with credentials other than the superuser pair, login succeeds exactly
\* when the stored list holds a record with that username and that secret;
\* otherwise it fails with the invalid-credentials error, and no persisted
\* state changes.
C8_LoginIffExactMatch ==
    LoggedInOrdinary =>
        /\ (lastCall.status = "ok") <=> (ExactMatches # {})
        /\ lastCall.status = "ok" =>
               \E k \in ExactMatches : lastCall.value = <<UsersBefore[k]>>
        /\ lastCall.status # "ok" =>
               /\ lastCall.status = "error"
               /\ lastCall.error = ERR_BAD_CREDENTIALS
        /\ lastCall.writes = {}
        /\ localStorage = lastCall.before

\* A login with a stored username and the wrong secret fails.
C8_Witness ==
    /\ LoggedInOrdinary
    /\ lastCall.status = "error"
    /\ lastCall.call.username \in UsernamesOf(UsersBefore)

\* C9 as claimed: no record with username 'admin', secret 'admin' and role
\* admin is ever in the stored user list.
C9_NoAdminTripleStored ==
    \A k \in 1..Len(StoredUsers) :
        ~(/\ StoredUsers[k].username = "admin"
          /\ StoredUsers[k].secret = "admin"
          /\ StoredUsers[k].role = "admin")

\* C9 (amended): the synthetic identity login('admin', 'admin') returns, id
\* 'admin-001', is never a record of the stored user list, and no login
\* changes the list; a stored record has role admin only with username and
\* secret both 'admin', which is the record register('admin', 'admin') appends.
C9_SyntheticAdminNeverStored ==
    /\ \A k \in 1..Len(StoredUsers) :
           /\ StoredUsers[k].id # ADMIN_ID
           /\ StoredUsers[k].role = "admin" =>
                  /\ StoredUsers[k].username = "admin"
                  /\ StoredUsers[k].secret = "admin"
    /\ lastCall.call.op = "login" => StoredUsers = UsersBefore

\* The superuser logs in, and is handed the synthetic identity, while the
\* list holds the record register('admin', 'admin') appended.
C9_Witness ==
    /\ LoggedInAsSuperuser
    /\ lastCall.value = <<admin>>
    /\ \E k \in 1..Len(StoredUsers) :
           /\ StoredUsers[k].username = "admin"
           /\ StoredUsers[k].secret = "admin"
           /\ StoredUsers[k].role = "admin"

\* C10: no two records of the stored user list have the same username, also
\* when register calls with one username are in flight together.
C10_UsernamesUnique ==
    \A j, k \in 1..Len(StoredUsers) :
        StoredUsers[j].username = StoredUsers[k].username => j = k

\* A register that started while another register of the same username was
\* in flight resumes after it and is refused.
C10_Witness ==
    /\ lastCall.call.op = "register"
    /\ lastCall.call.racing
    /\ lastCall.status = "error"
    /\ lastCall.call.username \in UsernamesOf(StoredUsers)

\* ------------------------------------------- performOCR: the request sent
\* The two prompt constants stand for their text.
OCR_PROMPT == "OCR_PROMPT"
RETRY_INSTRUCTION == "RETRY_INSTRUCTION"
DOCUMENT_PREFIX == "Content extracted from document:"

\* An optional string in a condition: undefined and '' are both falsy.
Truthy(s) == s # ""

\* The two performOCR sources of the repository.
ServiceVersions == {"geminiService.ts", "part_003"}
OcrInputs ==
    [base64 : {"", "iVBOR"}, mimeType : {"", "image/png"},
     textContent : {"", "extracted"}]

inlineDataPart(mimeType, data) ==
    [kind |-> "inlineData", mimeType |-> mimeType, data |-> data, text |-> <<>>]
textPart(text) ==
    [kind |-> "text", mimeType |-> "", data |-> "", text |-> text]

\* The parts both versions build from the input.
inputParts(in) ==
    (IF Truthy(in.base64) /\ Truthy(in.mimeType)
     THEN <<inlineDataPart(in.mimeType, in.base64)>> ELSE <<>>)
    \o (IF Truthy(in.textContent)
        THEN <<textPart(<<DOCUMENT_PREFIX, in.textContent>>)>> ELSE <<>>)

\* The argument of ai.models.generateContent, without the response schema.
\* src/geminiService.ts passes the prompt as the system instruction and never
\* reads isRetry.
generateContent_geminiService(in, isRetry) ==
    [parts |-> inputParts(in), systemInstruction |-> <<OCR_PROMPT>>]

\* src/unnamed/part_003 passes the prompt as the last part.
generateContent_part003(in, isRetry) ==
    [parts |-> inputParts(in)
               \o <<textPart(IF isRetry THEN <<OCR_PROMPT, RETRY_INSTRUCTION>>
                                         ELSE <<OCR_PROMPT>>)>>,
     systemInstruction |-> <<>>]

performOCR(version, in, isRetry) ==
    IF version = "geminiService.ts"
    THEN generateContent_geminiService(in, isRetry)
    ELSE generateContent_part003(in, isRetry)

performOCRApply(isRetry) ==
    LET slot == IF isRetry THEN "retry" ELSE "plain"
    IN  /\ input.fn = "performOCR"
        /\ output[slot] = <<>>
        /\ output' = [output EXCEPT
               ![slot] = <<performOCR(input.version, input.in, isRetry)>>]
        /\ UNCHANGED <<input, apiVars, app, pageVars, bankVars>>

\* ------------------------------------------------ choice option layout
MaxOptions == 2

\* A string as the sequence of its characters; .length is Len.
Chars(n) == [i \in 1..n |-> "x"]
\* Option texts on both sides of the two thresholds once the marker and the
\* space are counted.
OptionTexts == {Chars(0), Chars(8), Chars(9), Chars(31), Chars(32)}
Markers == << <<"A", ".">>, <<"B", ".">>, <<"C", ".">>, <<"D", ".">> >>
\* What content.split(/([A-D]\.)/) leaves after the stem: marker i followed
\* by its trimmed text.
SplitOptions ==
    UNION { [1..n -> OptionTexts] : n \in 0..MaxOptions }

Max(S) == CHOOSE m \in S : \A n \in S : n <= m

\* formatChoiceContent: `${parts[i]} ${parts[i + 1]?.trim() || ''}`.
exportOptions(texts) ==
    [i \in 1..Len(texts) |-> Markers[((i - 1) % 4) + 1] \o <<" ">> \o texts[i]]

getChoiceLayoutType_inclusive(options) ==
    IF Len(options) = 0 THEN "four"
    ELSE LET maxLen == Max({Len(options[i]) : i \in 1..Len(options)})
         IN  IF maxLen <= 12 THEN "one"
             ELSE IF maxLen <= 35 THEN "two"
             ELSE "four"

getChoiceLayoutType(options) ==
    IF Len(options) = 0 THEN "four"
    ELSE LET maxLen == Max({Len(options[i]) : i \in 1..Len(options)})
         IN  IF maxLen < 12 THEN "one"
             ELSE IF maxLen < 35 THEN "two"
             ELSE "four"

\* exportToPDF's style sheet: grid-template-columns of .layout-<type>.
layoutColumns(layout) ==
    CASE layout = "one" -> 4
      [] layout = "two" -> 2
      [] layout = "four" -> 1

\* QuestionCard.renderContent: { label: parts[i], text: parts[i+1].trim() }.
cardOptions(texts) ==
    [i \in 1..Len(texts) |->
        [label |-> Markers[((i - 1) % 4) + 1], text |-> texts[i]]]

\* gridCols of the card: the class without prefix and the md: class.
gridCols(options) ==
    LET maxLen == Max({Len(options[i].text) + 3 : i \in 1..Len(options)})
    IN  IF maxLen < 12 THEN [base |-> 2, md |-> 4]
        ELSE IF maxLen < 35 THEN [base |-> 1, md |-> 2]
        ELSE [base |-> 1, md |-> 1]

\* An md: class applies from the md breakpoint up and overrides the base one.
columnsShown(grid, atLeastMd) == IF atLeastMd THEN grid.md ELSE grid.base

\* exportToWord and exportToPDF both lay the options out by
\* getChoiceLayoutType(options).
exportApply ==
    /\ input.fn = "layout"
    /\ output["export"] = <<>>
    /\ LET layout == getChoiceLayoutType(exportOptions(input.texts))
       IN  output' = [output EXCEPT !["export"] =
               <<[layout |-> layout, columns |-> layoutColumns(layout)]>>]
    /\ UNCHANGED <<input, apiVars, app, pageVars, bankVars>>

\* The card rendered in a viewport at or above the md breakpoint, or below.
renderContentApply(atLeastMd) ==
    /\ input.fn = "layout"
    /\ Len(input.texts) > 0
    /\ output["card"] = <<>>
    /\ LET grid == gridCols(cardOptions(input.texts))
       IN  output' = [output EXCEPT !["card"] =
               <<[grid |-> grid, atLeastMd |-> atLeastMd,
                  columns |-> columnsShown(grid, atLeastMd)]>>]
    /\ UNCHANGED <<input, apiVars, app, pageVars, bankVars>>

PureInputs ==
    { [fn |-> "performOCR", version |-> v, in |-> in] :
          v \in ServiceVersions, in \in OcrInputs }
    \cup { [fn |-> "layout", texts |-> t] : t \in SplitOptions }

InitFunctions ==
    /\ InitApi
    /\ app = "multi"
    /\ InitPage
    /\ InitBank
    /\ input \in PureInputs
    /\ output = [s \in Slots |-> <<>>]

NextFunctions ==
    \/ \E isRetry \in BOOLEAN : performOCRApply(isRetry)
    \/ exportApply
    \/ \E atLeastMd \in BOOLEAN : renderContentApply(atLeastMd)

SpecFunctions == InitFunctions /\ [][NextFunctions]_vars

\* ------------------------------------------------------ function claims
RequestTexts(request) ==
    UNION { {request.parts[i].text[j] : j \in 1..Len(request.parts[i].text)} :
                i \in 1..Len(request.parts) }
    \cup {request.systemInstruction[j] :
              j \in 1..Len(request.systemInstruction)}

BothRequestsBuilt ==
    /\ input.fn = "performOCR"
    /\ output["plain"] # <<>>
    /\ output["retry"] # <<>>

\* C19: for one input, the request performOCR sends with isRetry = true is not
\* the request it sends with isRetry = false: only the retry request carries
\* the instruction about the invalid LaTeX of the previous attempt.
C19_RetryRequestDiffers ==
    BothRequestsBuilt =>
        /\ output["retry"][1] # output["plain"][1]
        /\ RETRY_INSTRUCTION \in RequestTexts(output["retry"][1])
        /\ RETRY_INSTRUCTION \notin RequestTexts(output["plain"][1])

\* The longest option as displayed: marker, space and text.
LongestOption ==
    Max({2 + 1 + Len(input.texts[i]) : i \in 1..Len(input.texts)})

FourTwoOne(L) == IF L < 12 THEN 4 ELSE IF L < 35 THEN 2 ELSE 1

LaidOut == input.fn = "layout" /\ Len(input.texts) > 0

\* C20 as stated: the card and both exports show the options four, two or one
\* per row by the thresholds 12 and 35 on the longest option, in every case.
C20_SameArrangementEverywhere ==
    LaidOut =>
        /\ output["export"] # <<>> =>
               output["export"][1].columns = FourTwoOne(LongestOption)
        /\ output["card"] # <<>> =>
               output["card"][1].columns = FourTwoOne(LongestOption)

\* C20: both exports always choose four, two or one per row by the thresholds
\* 12 and 35 on the longest option; the card chooses the same from the md
\* breakpoint up, and below it two per row under 12 and one per row otherwise.
C20_LayoutByLongestOption ==
    LaidOut =>
        /\ output["export"] # <<>> =>
               output["export"][1].columns = FourTwoOne(LongestOption)
        /\ output["card"] # <<>> =>
               output["card"][1].columns =
                   IF output["card"][1].atLeastMd
                   THEN FourTwoOne(LongestOption)
                   ELSE IF LongestOption < 12 THEN 2 ELSE 1

C20_Witness ==
    /\ LaidOut
    /\ LongestOption = 12
    /\ Len(input.texts) = 2
    /\ output["export"] # <<>>
    /\ output["card"] # <<>>
    /\ output["card"][1].atLeastMd
    /\ output["card"][1].columns = 2

\* ------------------------------------------ the draft editor (single-user)
\* How the page is scheduled.  A handler started by a user event (a click, a
\* change) reads the state its render closed over, and its updates are
\* committed before the next event is handled.  A handler started by a settled
\* promise (a typeset, a performOCR call) queues its updates: the render that
\* shows them is a later task, so another settled promise can run a handler
\* of the old render first.

MAX_RETRIES == 2
MaxDrafts == 1
MaxTypesets == 2
MaxOcrCalls == 2
MaxStored == 2
MaxBatches == 1

\* Source literals in Chinese: the category "uncategorized", the default tags
\* "OCR import" and "Word import", the text shown when the response item has
\* none, and the notification messages.
UNCATEGORIZED == "Uncategorized"
TAGS_OCR == <<"OCR-import">>
TAGS_WORD == <<"Word-import">>
NOT_RECOGNIZED == "NothingRecognized"
MSG_RECOGNIZED == "Recognized"
MSG_REOPTIMIZED == "Reoptimized"
MSG_SAVED == "Saved"
MSG_FILE_ERROR == "FileError"
MSG_PARSE_FAILED == "ParseFailed"
DIFFICULTY_MEDIUM == "Medium"
SOLUTION == "Solution"

\* fileData of a draft: what was sent to performOCR for its file.
ImageData == [base64 |-> "iVBOR", mimeType |-> "image/png", textContent |-> ""]
DocumentData == [base64 |-> "", mimeType |-> "", textContent |-> "extracted"]

\* Items of a performOCR response: one complete, one with neither field.
OcrItem == [text |-> "ocr-text", latex |-> "ocr-latex"]
EmptyItem == [text |-> "", latex |-> ""]
NumberedItem == [text |-> "1. numbered", latex |-> "numbered-latex"]
RetryItem == [text |-> "retry-text", latex |-> "retry-latex"]
\* Math.random().toString(36).substr(2, 9) of the n-th draft a batch pushes:
\* successive values are taken to differ.
DraftId(n) == <<"id", n>>

\* a || b on strings.
OrElse(a, b) == IF Truthy(a) THEN a ELSE b

\* A tags text as its pieces: words, blanks and the separators of
\* split(/[,\/<fullwidth comma>]/).
TagSeparators == {",", "/", "fw-comma"}
TagsTyped == <<"exam", ",", " ", "2024", "fw-comma", " ">>

RECURSIVE splitPieces(_, _)
splitPieces(tokens, piece) ==
    IF tokens = <<>> THEN <<piece>>
    ELSE IF Head(tokens) \in TagSeparators
         THEN <<piece>> \o splitPieces(Tail(tokens), <<>>)
         ELSE splitPieces(Tail(tokens), Append(piece, Head(tokens)))

RECURSIVE trim(_)
trim(piece) ==
    IF piece = <<>> THEN piece
    ELSE IF Head(piece) = " " THEN trim(Tail(piece))
    ELSE IF piece[Len(piece)] = " " THEN trim(SubSeq(piece, 1, Len(piece) - 1))
    ELSE piece

\* tags.split(/[,\/<fullwidth comma>]/).map(t => t.trim()).filter(Boolean)
splitTags(tags) ==
    LET pieces == splitPieces(tags, <<>>)
        trimmed == [i \in 1..Len(pieces) |-> trim(pieces[i])]
    IN  SelectSeq(trimmed, LAMBDA piece : piece # <<>>)

\* A draft the single-user startOCR pushes for one response item.
newDraft(id, file, fileData, ocr) ==
    [id |-> id, file |-> file, fileData |-> fileData,
     latex |-> OrElse(ocr.latex, ""),
     text |-> OrElse(ocr.text, NOT_RECOGNIZED),
     category |-> UNCATEGORIZED, difficulty |-> DIFFICULTY_MEDIUM,
     tags |-> IF Truthy(fileData.textContent) THEN TAGS_WORD ELSE TAGS_OCR,
     isSaved |-> FALSE, retryCount |-> 0,
     isRetrying |-> FALSE,   \* not set by startOCR: undefined, falsy
     hasError |-> FALSE]

\* updateProcessedResult: the updater applied to the latest list.
updateProcessedResult(prev, idx, updates) ==
    IF idx \in 1..Len(prev)
    THEN LET old == prev[idx]
         IN  [prev EXCEPT ![idx] =
                 [f \in DOMAIN old |->
                     IF f \in DOMAIN updates THEN updates[f] ELSE old[f]]]
    ELSE prev

\* Bags of calls in flight.
One(x) == SetToBag({x})
RECURSIVE CopiesMapped(_, _, _, _)
CopiesMapped(B, F(_), y, S) ==
    IF S = {} THEN 0
    ELSE LET x == CHOOSE x \in S : TRUE
         IN  (IF F(x) = y THEN B[x] ELSE 0)
             + CopiesMapped(B, F, y, S \ {x})
\* The bag of F(x) for the x of bag B.
MapBag(B, F(_)) ==
    [y \in {F(x) : x \in DOMAIN B} |-> CopiesMapped(B, F, y, DOMAIN B)]

\* The drafts whose LatexRenderer is on the page in a render of list.
Mounted(list) ==
    IF app = "single"
    THEN {i \in 1..Len(list) : ~list[i].isRetrying}
    ELSE {}

\* A render of list is committed.  Every LatexRenderer effect runs again (its
\* onError is a new function in every render): the timer of the previous
\* render is cleared and a new one armed.  A renderer that is no longer on
\* the page leaves containerRef.current null for the typesets it started.
Commit(list, inFlight) ==
    /\ rendered' = list
    /\ armed' = Mounted(list)
    /\ typesets' = LET unmount(t) ==
                          [t EXCEPT !.live = t.live /\ t.idx \in Mounted(list)]
                   IN  MapBag(inFlight, unmount)

\* Updates queued by a handler that a settled promise started wait for the
\* render React schedules; that render is queued as a task before any timer
\* or response that becomes due later.
RenderPending == processedResults # rendered

\* The render React schedules after queued updates, or after another state
\* of App changed (a notification added or expired).
render ==
    /\ Commit(processedResults, typesets)
    /\ notified' = <<>>
    /\ lastEvent' = NoEvent
    /\ UNCHANGED <<app, uploadFiles, isUploading, batch, ocrCalls,
                   processedResults, retryCalls, saving, clearTimer,
                   apiVars, pureVars, bankVars>>

\* What handleMathError reads of processedResults[idx] in its closure.
TargetOf(draft) ==
    [isSaved |-> draft.isSaved, isRetrying |-> draft.isRetrying,
     retryCount |-> draft.retryCount, hasError |-> draft.hasError,
     fileData |-> draft.fileData]

\* The 50 ms timer of a LatexRenderer fires: mathJax.typesetPromise starts,
\* with the onError of the render that armed the timer.  live: the renderer
\* is still on the page (containerRef.current is set).  gone: the draft the
\* typeset was started for has since been removed from the list.
typesetStart(idx) ==
    /\ ~RenderPending
    /\ idx \in armed
    /\ BagCardinality(typesets) < MaxTypesets
    /\ typesets' = typesets (+) One(
           [idx |-> idx, live |-> TRUE, gone |-> FALSE,
            target |-> TargetOf(rendered[idx])])
    /\ armed' = armed \ {idx}
    /\ notified' = <<>>
    /\ lastEvent' = NoEvent
    /\ UNCHANGED <<app, uploadFiles, isUploading, batch, ocrCalls,
                   processedResults, rendered, retryCalls, saving,
                   clearTimer, apiVars, pureVars, bankVars>>

Event(kind, idx, branch, gone) ==
    [kind |-> kind, idx |-> idx, branch |-> branch, gone |-> gone]

\* A performOCR call in flight.  by: "batch" (startOCR, idx is the file) or
\* "retry" (handleMathError, idx is the draft, retryCount is
\* target.retryCount of its closure).
OcrCall(by, idx, in, isRetry, retryCount, gone) ==
    [by |-> by, idx |-> idx, in |-> in, isRetry |-> isRetry,
     retryCount |-> retryCount, gone |-> gone]

\* handleMathError(idx) of a render whose processedResults[idx] was target.
\* from: the typeset that reported the failure.
handleMathError(idx, target, from) ==
    IF target.isSaved \/ target.isRetrying
    THEN /\ lastEvent' = Event("handleMathError", idx, "return", from.gone)
         /\ UNCHANGED <<processedResults, ocrCalls, retryCalls>>
    ELSE IF target.retryCount < MAX_RETRIES
    THEN /\ BagCardinality(ocrCalls) < MaxOcrCalls
         /\ processedResults' = updateProcessedResult(processedResults, idx,
                [isRetrying |-> TRUE, hasError |-> FALSE])
         /\ ocrCalls' = ocrCalls (+) One(
                OcrCall("retry", idx, target.fileData, TRUE,
                        target.retryCount, from.gone))
         /\ retryCalls' =
                IF idx \in 1..Len(retryCalls) /\ ~from.gone
                THEN [retryCalls EXCEPT ![idx] = @ + 1]
                ELSE retryCalls
         /\ lastEvent' = Event("handleMathError", idx, "retry", from.gone)
    ELSE /\ processedResults' =
                IF ~target.hasError
                THEN updateProcessedResult(processedResults, idx,
                         [hasError |-> TRUE])
                ELSE processedResults
         /\ lastEvent' = Event("handleMathError", idx, "exhausted", from.gone)
         /\ UNCHANGED <<ocrCalls, retryCalls>>

\* A typesetPromise settles.  "clean": resolved, no error element; "merror":
\* resolved with mjx-merror elements in the container; "rejected".  onError
\* runs on "rejected", and on "merror" when containerRef.current is set.
\* Typesets queue on one MathJax promise chain, so one may settle right after
\* another, before the render the first one's handler asked for.
TypesetOutcomes == {"clean", "merror", "rejected"}

typesetSettles(t, outcome) ==
    /\ t \in BagToSet(typesets)
    /\ typesets' = typesets (-) One(t)
    /\ IF outcome = "rejected" \/ (outcome = "merror" /\ t.live)
       THEN handleMathError(t.idx, t.target, t)
       ELSE /\ lastEvent' = NoEvent
            /\ UNCHANGED <<processedResults, ocrCalls, retryCalls>>
    /\ notified' = <<>>
    /\ UNCHANGED <<app, uploadFiles, isUploading, batch, rendered, armed,
                   saving, clearTimer, apiVars, pureVars, bankVars>>

\* The performOCR call of a retry settles: the rest of handleMathError.
RetryOutcomes == {"items", "empty", "throws"}

retryReturns(call, outcome) ==
    /\ ~RenderPending
    /\ call \in BagToSet(ocrCalls)
    /\ call.by = "retry"
    /\ ocrCalls' = ocrCalls (-) One(call)
    /\ processedResults' = updateProcessedResult(processedResults, call.idx,
           IF outcome = "items"
           THEN [text |-> RetryItem.text, latex |-> RetryItem.latex,
                 retryCount |-> call.retryCount + 1, isRetrying |-> FALSE]
           ELSE [isRetrying |-> FALSE,
                 retryCount |-> call.retryCount + 1, hasError |-> TRUE])
    /\ notified' = IF outcome = "items" THEN <<MSG_REOPTIMIZED>> ELSE <<>>
    /\ lastEvent' = Event("retryReturns", call.idx, outcome, call.gone)
    /\ UNCHANGED <<app, uploadFiles, isUploading, batch, rendered, armed,
                   typesets, retryCalls, saving, clearTimer, apiVars,
                   pureVars, bankVars>>

\* The end of a single-user startOCR batch that produced results: the only
\* step of a batch that touches the draft list.
appendResults(prev, results) == prev \o results

\* The results of the n-th batch, of one file with a one-item response: an
\* image, or a document.
ArrivingResults(n) ==
    { <<newDraft(DraftId(n), "file", ImageData, OcrItem)>>,
      <<newDraft(DraftId(n), "file", DocumentData, OcrItem)>> }

draftsArrive(results) ==
    /\ app = "single"
    /\ ~RenderPending
    /\ batch.started < MaxBatches
    /\ Len(results) > 0
    /\ Len(processedResults) + Len(results) <= MaxDrafts
    /\ batch' = [batch EXCEPT !.started = @ + 1]
    /\ processedResults' = appendResults(processedResults, results)
    /\ retryCalls' = retryCalls \o [i \in 1..Len(results) |-> 0]
    /\ notified' = <<MSG_RECOGNIZED>>
    /\ lastEvent' = Event("startOCR", 0, "results", FALSE)
    /\ UNCHANGED <<app, uploadFiles, isUploading, ocrCalls, rendered,
                   armed, typesets, saving, clearTimer, apiVars, pureVars,
                   bankVars>>

\* ---- handlers of user events: the handler and the render it causes
TEXT_TYPED == "typed-text"
CATEGORY_CHOSEN == "Algebra"

\* disabled={res.isSaved} of the textarea, the select, the input and the
\* save button.
ControlEnabled(idx) ==
    /\ app = "single"
    /\ idx \in 1..Len(rendered)
    /\ ~rendered[idx].isSaved

Edit(idx, updates, kind) ==
    /\ ControlEnabled(idx)
    /\ processedResults' = updateProcessedResult(processedResults, idx, updates)
    /\ Commit(processedResults', typesets)
    /\ notified' = <<>>
    /\ lastEvent' = Event(kind, idx, "", FALSE)
    /\ UNCHANGED <<app, uploadFiles, isUploading, batch, ocrCalls, retryCalls,
                   saving, clearTimer, apiVars, pureVars, bankVars>>

editText(idx) == Edit(idx, [text |-> TEXT_TYPED, hasError |-> FALSE], "editText")
editCategory(idx) == Edit(idx, [category |-> CATEGORY_CHOSEN], "editCategory")
editTags(idx) == Edit(idx, [tags |-> TagsTyped], "editTags")

\* The Question saveSingle builds from the draft of its render.
questionOf(res) ==
    [id |-> res.id, content |-> res.text, latex |-> res.latex,
     tags |-> splitTags(res.tags), category |-> res.category,
     difficulty |-> res.difficulty, createdAt |-> "Date.now()"]

\* saveQuestion of utils/storage: unshift and write back.
unshiftQuestion(question) ==
    setItem(STORAGE_KEY, <<question>> \o parseOrEmpty(getItem(STORAGE_KEY)))

saveSingleRefuses_erroring(res) == res.isSaved \/ res.hasError

\* if (res.isSaved) return;
saveSingleRefuses(res) == res.isSaved

saveSingle(idx) ==
    /\ ControlEnabled(idx)
    /\ Len(parseOrEmpty(getItem(STORAGE_KEY))) < MaxStored
    /\ LET res == rendered[idx]
       IN  IF saveSingleRefuses(res)
           THEN /\ lastEvent' = Event("saveSingle", idx, "return", FALSE)
                /\ notified' = <<>>
                /\ UNCHANGED <<localStorage, processedResults, rendered,
                               armed, typesets, clearTimer, questions>>
           ELSE /\ localStorage' = unshiftQuestion(questionOf(res))
                /\ questions' = parseOrEmpty(localStorage'[STORAGE_KEY])
                /\ processedResults' = updateProcessedResult(
                       processedResults, idx, [isSaved |-> TRUE])
                /\ notified' = <<MSG_SAVED>>
                /\ clearTimer' =
                       (clearTimer \/ \A i \in 1..Len(rendered) :
                                          rendered[i].isSaved)
                /\ Commit(processedResults', typesets)
                /\ lastEvent' = Event("saveSingle", idx, "saved", FALSE)
    /\ UNCHANGED <<app, uploadFiles, isUploading, batch, ocrCalls, retryCalls,
                   saving, pending, lastCall, pureVars, selectedQuestions>>

\* The clear button: setProcessedResults([]).  Whatever is in flight was
\* started for a draft that is now removed.
clearResults ==
    /\ app = "single"
    /\ Len(rendered) > 0
    /\ processedResults' = <<>>
    /\ retryCalls' = <<>>
    /\ ocrCalls' = LET remove(call) ==
                          IF call.by = "retry"
                          THEN [call EXCEPT !.gone = TRUE] ELSE call
                   IN  MapBag(ocrCalls, remove)
    /\ LET remove(t) == [t EXCEPT !.gone = TRUE]
       IN  Commit(<<>>, MapBag(typesets, remove))
    /\ notified' = <<>>
    /\ lastEvent' = Event("clearResults", 0, "", FALSE)
    /\ UNCHANGED <<app, uploadFiles, isUploading, batch, saving, clearTimer,
                   apiVars, pureVars, bankVars>>

InitDraft ==
    /\ InitApi
    /\ app = "single"
    /\ InitPage
    /\ InitBank
    /\ InitPure

NextDraft ==
    \/ \E results \in ArrivingResults(batch.started + 1) :
           draftsArrive(results)
    \/ render
    \/ \E idx \in 1..MaxDrafts : typesetStart(idx)
    \/ \E t \in BagToSet(typesets), outcome \in TypesetOutcomes :
           typesetSettles(t, outcome)
    \/ \E call \in BagToSet(ocrCalls), outcome \in RetryOutcomes :
           retryReturns(call, outcome)
    \/ \E idx \in 1..MaxDrafts : editText(idx)
    \/ \E idx \in 1..MaxDrafts : editCategory(idx)
    \/ \E idx \in 1..MaxDrafts : editTags(idx)
    \/ \E idx \in 1..MaxDrafts : saveSingle(idx)
    \/ clearResults

SpecDraft == InitDraft /\ [][NextDraft]_vars

\* ---------------------------------------------------- draft editor claims
\* C11: for every draft, the retry performOCR calls issued for it never
\* number more than MAX_RETRIES, whatever rendering failures are delivered
\* to handleMathError and whenever they are delivered.
C11_RetriesAtMostMax ==
    \A i \in 1..Len(retryCalls) : retryCalls[i] <= MAX_RETRIES

\* The step just taken ran handleMathError for the draft now at the index.
FailureDeliveredTo(i) ==
    /\ lastEvent'.kind = "handleMathError"
    /\ lastEvent'.idx = i
    /\ ~lastEvent'.gone

\* C12: a rendering failure delivered for an unsaved draft whose retry counter
\* has reached MAX_RETRIES issues no OCR call, leaves the counter, the text
\* and the core formula as they were, and leaves the draft flagged hasError.
C12_ExhaustedFailureOnlyFlags ==
    [][\A i \in 1..Len(processedResults) :
          (/\ FailureDeliveredTo(i)
           /\ ~processedResults[i].isSaved
           /\ processedResults[i].retryCount >= MAX_RETRIES)
          => /\ ocrCalls' = ocrCalls
             /\ processedResults'[i].hasError
             /\ processedResults'[i].retryCount = processedResults[i].retryCount
             /\ processedResults'[i].text = processedResults[i].text
             /\ processedResults'[i].latex = processedResults[i].latex]_vars

StoredBank == parseOrEmpty(getItem(STORAGE_KEY))
StoredBankAfter == parseOrEmpty(localStorage'[STORAGE_KEY])

\* The step just taken ran saveSingle on draft i, which is exhausted and
\* flagged, not saved, and shown as it is (no update of it waits for a render).
SavesErroringDraft(i) ==
    /\ lastEvent'.kind = "saveSingle"
    /\ lastEvent'.idx = i
    /\ i \in 1..Len(processedResults)
    /\ rendered[i] = processedResults[i]
    /\ processedResults[i].retryCount = MAX_RETRIES
    /\ processedResults[i].hasError
    /\ ~processedResults[i].isSaved

RecordsOf(list, id) == {k \in 1..Len(list) : list[k].id = id}

\* The step just taken left draft i in the list (it did not clear the list).
StaysListed(i) ==
    /\ lastEvent'.kind # "clearResults"
    /\ i \in 1..Len(processedResults')

\* C17: once a draft is saved, no later step changes its text, core formula,
\* category, tags or retry counter, and no later step writes another record
\* with its id into the stored list.
C17_SavedIsReadOnly ==
    [][\A i \in 1..Len(processedResults) :
          (processedResults[i].isSaved /\ StaysListed(i))
          => /\ processedResults'[i].text = processedResults[i].text
             /\ processedResults'[i].latex = processedResults[i].latex
             /\ processedResults'[i].category = processedResults[i].category
             /\ processedResults'[i].tags = processedResults[i].tags
             /\ processedResults'[i].retryCount = processedResults[i].retryCount
             /\ Cardinality(RecordsOf(StoredBankAfter, processedResults[i].id))
                    <= Cardinality(RecordsOf(StoredBank, processedResults[i].id))]_vars

\* ------------------------------------------------- startOCR: the batch
\* One invocation of startOCR runs from one await to the next: the read of a
\* file (file.arrayBuffer and mammoth, or the FileReader promise), then the
\* performOCR call.  batch.files is the uploadFiles of the render the click
\* handler closed over, batch.results the local array results, batch.calls
\* the performOCR calls the invocation started and saw settle, in order.

MaxFiles == 2

DOCX_MIME == "application/vnd.openxmlformats-officedocument.wordprocessingml.document"

\* A File: its name as stem and extension, and its type.
PngFile == [name |-> <<"scan", ".png">>, type |-> "image/png"]
DocxFile == [name |-> <<"paper", ".docx">>, type |-> DOCX_MIME]
UpperDocxFile == [name |-> <<"PAPER", ".DOCX">>, type |-> DOCX_MIME]
Files == {PngFile, DocxFile, UpperDocxFile}
Selections == UNION {[1..n -> Files] : n \in 1..MaxFiles}

toLowerCase(name) ==
    [i \in 1..Len(name) |->
        CASE name[i] = ".DOCX" -> ".docx"
          [] name[i] = "PAPER" -> "paper"
          [] OTHER -> name[i]]

endsWith(name, suffix) == Len(name) > 0 /\ name[Len(name)] = suffix

\* The test that sends a file to mammoth instead of the FileReader.
isDocx(name) ==
    IF app = "multi"
    THEN endsWith(toLowerCase(name), ".docx")
    ELSE endsWith(name, ".docx")

\* { textContent } of an extracted document, and { base64, mimeType } of the
\* data URL the FileReader produced.
extractedInput(file) == DocumentData
dataUrlInput(file) ==
    [base64 |-> IF file.type = DOCX_MIME THEN "UEsDB" ELSE ImageData.base64,
     mimeType |-> file.type, textContent |-> ""]

\* text.replace(/^\d+[\.<comma>\s]+/, '').trim() on the texts of the items.
cleanQuestionStem(text) ==
    IF text = NumberedItem.text THEN "numbered" ELSE text

\* A draft the multi-user startOCR pushes for one response item.
newDraft_multi(id, file, ocr) ==
    [id |-> id, file |-> file,
     latex |-> OrElse(ocr.latex, ""),
     text |-> cleanQuestionStem(OrElse(ocr.text, "")),
     category |-> UNCATEGORIZED, type |-> SOLUTION,
     difficulty |-> DIFFICULTY_MEDIUM, tags |-> <<>>, isSaved |-> FALSE]

draftsOf_firstItemOnly(file, fileData, ocrResults, made) ==
    IF ocrResults = <<>> THEN <<>>
    ELSE <<newDraft(DraftId(made + 1), <<file.name, 1>>, fileData,
                    ocrResults[1])>>

\* ocrResults.forEach(... results.push(...)): made is results.length before.
draftsOf(file, fileData, ocrResults, made) ==
    [k \in 1..Len(ocrResults) |->
        IF app = "single"
        THEN newDraft(DraftId(made + k), <<file.name, k>>, fileData,
                      ocrResults[k])
        ELSE newDraft_multi(DraftId(made + k), file.name, ocrResults[k])]

CallEvent(ev, file, items) == [ev |-> ev, file |-> file, items |-> items]

awaitPerformOCR_notAwaited(b) ==
    IF b.file < Len(b.files)
    THEN [b EXCEPT !.pc = "reading", !.file = @ + 1]
    ELSE [b EXCEPT !.pc = "calling"]

\* await performOCR(...): the loop is suspended until the call settles.
awaitPerformOCR(b) == [b EXCEPT !.pc = "calling"]

\* handleFileChange.  The file input stays enabled while a batch runs.
selectFiles(files) ==
    /\ batch.started < MaxBatches \/ isUploading
    /\ uploadFiles' = files
    /\ notified' = <<>>
    /\ lastEvent' = Event("handleFileChange", 0, "", FALSE)
    /\ UNCHANGED <<app, isUploading, batch, ocrCalls, processedResults,
                   rendered, armed, typesets, retryCalls, saving, clearTimer,
                   apiVars, pureVars, bankVars>>

\* The click on the start button (shown when files are selected, disabled
\* while isUploading), up to the first await.
startOCR ==
    /\ ~isUploading
    /\ Len(uploadFiles) > 0
    /\ batch.started < MaxBatches
    /\ isUploading' = TRUE
    /\ batch' = [pc |-> "reading", file |-> 1, files |-> uploadFiles,
                 results |-> <<>>, calls |-> <<>>,
                 started |-> batch.started + 1]
    /\ notified' = <<>>
    /\ lastEvent' = Event("startOCR", 1, "begin", FALSE)
    /\ UNCHANGED <<app, uploadFiles, ocrCalls, processedResults, rendered,
                   armed, typesets, retryCalls, saving, clearTimer, apiVars,
                   pureVars, bankVars>>

\* The loop goes on after the current file: to the read of the next file, or
\* past the loop to the end of startOCR.  b is the invocation's state after
\* the current file, notes what it has passed to addNotification.
Continue(b, notes) ==
    IF b.file < Len(b.files)
    THEN /\ batch' = [b EXCEPT !.pc = "reading", !.file = @ + 1]
         /\ notified' = notes
         /\ UNCHANGED <<processedResults, uploadFiles, isUploading>>
    ELSE /\ batch' = [b EXCEPT !.pc = "idle"]
         /\ isUploading' = FALSE
         /\ IF app = "single"
            THEN IF Len(b.results) > 0
                 THEN /\ processedResults' =
                             appendResults(processedResults, b.results)
                      /\ notified' = notes \o <<MSG_RECOGNIZED>>
                      /\ uploadFiles' = <<>>
                 ELSE /\ notified' = notes
                      /\ UNCHANGED <<processedResults, uploadFiles>>
            ELSE /\ processedResults' = b.results
                 /\ notified' = notes
                 /\ UNCHANGED uploadFiles

\* Something thrown while the current file is handled.  Single-user: the
\* catch inside the loop.  Multi-user: the catch around the loop.
FileFails(b) ==
    IF app = "single"
    THEN Continue(b, <<MSG_FILE_ERROR>>)
    ELSE /\ batch' = [b EXCEPT !.pc = "idle"]
         /\ isUploading' = FALSE
         /\ notified' = <<MSG_PARSE_FAILED>>
         /\ UNCHANGED <<processedResults, uploadFiles>>

\* The read of the current file settles.  "ok"; "error" (arrayBuffer or
\* mammoth throws, the FileReader reports an error); "nomatch" (the data URL
\* does not match /^data:([^;]+);base64,(.+)$/).
ReadOutcomes == {"ok", "error", "nomatch"}

readSettles(outcome) ==
    /\ batch.pc = "reading"
    /\ LET file == batch.files[batch.file]
           call(in) ==
               /\ ocrCalls' = ocrCalls (+) One(
                      OcrCall("batch", batch.file, in, FALSE, 0, FALSE))
               /\ batch' = awaitPerformOCR(
                      [batch EXCEPT !.calls = Append(@,
                           CallEvent("start", batch.file, <<>>))])
               /\ notified' = <<>>
               /\ lastEvent' = Event("startOCR", batch.file, "called", FALSE)
               /\ UNCHANGED <<processedResults, uploadFiles, isUploading>>
           fails ==
               /\ FileFails(batch)
               /\ lastEvent' = Event("startOCR", batch.file, "failed", FALSE)
               /\ UNCHANGED ocrCalls
       IN  IF isDocx(file.name)
           THEN /\ outcome # "nomatch"
                /\ IF outcome = "ok" THEN call(extractedInput(file)) ELSE fails
           ELSE IF outcome = "ok" THEN call(dataUrlInput(file))
           ELSE IF app = "single" THEN fails
           ELSE IF outcome = "nomatch"
           THEN \* if (!mimeTypeMatch) continue;
                /\ Continue(batch, <<>>)
                /\ lastEvent' = Event("startOCR", batch.file, "failed", FALSE)
                /\ UNCHANGED ocrCalls
           ELSE \* no reader.onerror: the promise never settles
                /\ batch' = [batch EXCEPT !.pc = "hung"]
                /\ notified' = <<>>
                /\ lastEvent' = Event("startOCR", batch.file, "failed", FALSE)
                /\ UNCHANGED <<ocrCalls, processedResults, uploadFiles,
                               isUploading>>
    /\ UNCHANGED <<app, rendered, armed, typesets, retryCalls, saving,
                   clearTimer, apiVars, pureVars, bankVars>>

\* What a performOCR call of the batch settles with: the parsed items, or an
\* exception (the request fails, or JSON.parse throws on the response text).
BatchOutcomes ==
    { [throws |-> FALSE, items |-> <<>>],
      [throws |-> FALSE, items |-> <<OcrItem>>],
      [throws |-> FALSE, items |-> <<NumberedItem, EmptyItem>>],
      [throws |-> TRUE, items |-> <<>>] }

ocrSettles(call, outcome) ==
    /\ call \in BagToSet(ocrCalls)
    /\ call.by = "batch"
    /\ batch.pc = "calling"
    /\ call.idx = batch.file
    /\ ocrCalls' = ocrCalls (-) One(call)
    /\ LET file == batch.files[call.idx]
       IN  IF outcome.throws
           THEN /\ FileFails([batch EXCEPT !.calls = Append(@,
                        CallEvent("error", call.idx, <<>>))])
                /\ lastEvent' = Event("startOCR", call.idx, "failed", FALSE)
           ELSE /\ Continue(
                       [batch EXCEPT
                          !.results = @ \o draftsOf(file, call.in,
                                            outcome.items, Len(@)),
                          !.calls = Append(@,
                              CallEvent("end", call.idx, outcome.items))],
                       <<>>)
                /\ lastEvent' = Event("startOCR", call.idx, "returned", FALSE)
    /\ UNCHANGED <<app, rendered, armed, typesets, retryCalls, saving,
                   clearTimer, apiVars, pureVars, bankVars>>

InitBatch ==
    /\ InitApi
    /\ app \in {"single", "multi"}
    /\ InitPage
    /\ InitBank
    /\ InitPure

NextBatch ==
    \/ \E files \in Selections : selectFiles(files)
    \/ startOCR
    \/ \E outcome \in ReadOutcomes : readSettles(outcome)
    \/ \E call \in BagToSet(ocrCalls), outcome \in BatchOutcomes :
           ocrSettles(call, outcome)

SpecBatch == InitBatch /\ [][NextBatch]_vars

\* ------------------------------------------------ claims about the batch
BatchCallsInFlight == {call \in BagToSet(ocrCalls) : call.by = "batch"}

\* The step just taken handled a failure of the batch's current file.
FileFailed ==
    /\ lastEvent'.kind = "startOCR"
    /\ lastEvent'.branch = "failed"

BatchEnds == isUploading /\ ~isUploading'

Listed(draft, list) == \E k \in 1..Len(list) : list[k] = draft

\* C14: in a batch, a failure of one file is reported as a notification and
\* does not stop the batch (the loop goes on to the next file), and when the
\* batch ends every draft produced by a file that succeeded is in the draft
\* list.
C14_FileFailureNotFatal ==
    [][/\ FileFailed
          => /\ notified' # <<>>
             /\ batch.file < Len(batch.files)
                => /\ batch'.pc = "reading"
                   /\ batch'.file = batch.file + 1
       /\ BatchEnds
          => /\ batch.file = Len(batch.files)
             /\ \A k \in 1..Len(batch'.results) :
                    Listed(batch'.results[k], processedResults')]_vars

\* C15: the performOCR calls of one batch are sequential in file order: at
\* most one is in flight, each call the batch started has settled (with a
\* result or an error) before the next one starts, and the calls start in
\* increasing file order.
C15_BatchCallsSequential ==
    /\ Cardinality(BatchCallsInFlight) <= 1
    /\ \A call \in BatchCallsInFlight : ocrCalls[call] = 1
    /\ \A p \in 1..Len(batch.calls) :
           batch.calls[p].ev = "start"
           => /\ p < Len(batch.calls)
                 => /\ batch.calls[p + 1].ev \in {"end", "error"}
                    /\ batch.calls[p + 1].file = batch.calls[p].file
              /\ \A q \in 1..(p - 1) :
                     batch.calls[q].ev = "start"
                     => batch.calls[q].file < batch.calls[p].file

\* Two files of one batch have had their calls, one after the other.
C15_Witness ==
    /\ Len(batch.calls) = 4
    /\ batch.calls[1].ev = "start" /\ batch.calls[1].file = 1
    /\ batch.calls[3].ev = "start" /\ batch.calls[3].file = 2

\* The step just taken is the return of a batch call with its items.
CallReturned ==
    /\ Len(batch'.calls) = Len(batch.calls) + 1
    /\ batch'.calls[Len(batch'.calls)].ev = "end"

ItemsReturned == batch'.calls[Len(batch'.calls)].items

\* C16: when the call of a file returns n items, startOCR pushes exactly n
\* drafts, in response order, each uncategorized, of medium difficulty, not
\* saved and, in the single-user version, with retry counter 0 and no error
\* flag.
C16_OneDraftPerItem ==
    [][CallReturned
       => LET n == Len(ItemsReturned)
              old == batch.results
              new == batch'.results
          IN  /\ Len(new) = Len(old) + n
              /\ SubSeq(new, 1, Len(old)) = old
              /\ \A k \in 1..n :
                     LET draft == new[Len(old) + k]
                     IN  /\ draft.latex = ItemsReturned[k].latex
                         /\ draft.category = UNCATEGORIZED
                         /\ draft.difficulty = DIFFICULTY_MEDIUM
                         /\ ~draft.isSaved
                         /\ app = "single"
                            => /\ draft.retryCount = 0
                               /\ ~draft.hasError]_vars

\* A batch of one image whose response had one item has ended with one draft
\* in the list.
C16_Witness ==
    /\ batch.pc = "idle"
    /\ batch.files = <<PngFile>>
    /\ Len(batch.calls) = 2
    /\ batch.calls[2].ev = "end"
    /\ Len(batch.calls[2].items) = 1
    /\ Len(processedResults) = 1
    /\ processedResults[1].category = UNCATEGORIZED

\* C18: every OCR request of the batch for a file named .docx in any letter
\* case carries the extracted text only, no base64 data and no mimeType.
C18_DocxSentAsTextOnly ==
    \A call \in BatchCallsInFlight :
        endsWith(toLowerCase(batch.files[call.idx].name), ".docx")
        => /\ call.in.base64 = ""
           /\ call.in.mimeType = ""
           /\ call.in.textContent # ""

\* ------------------------------------- question text: split and reflow
\* A text is the sequence of its characters.  "LF" is the line feed, "fw("
\* and "fw)" the full-width parentheses; "q" and "j" stand for the two
\* Chinese characters of the stem of the example.
MaxContent == 4
MaxText == 4
MaxWordOptions == 5

SINGLE_CHOICE == "SingleChoice"
MULTIPLE_CHOICE == "MultipleChoice"
QuestionTypes == {SINGLE_CHOICE, MULTIPLE_CHOICE, SOLUTION}

MarkerLetters == {"A", "B", "C", "D"}
ContentChars == {"A", "D", "E", ".", " "}
Contents == UNION {[1..n -> ContentChars] : n \in 0..MaxContent}

\* "求解. A.1 B.2 C.3 D.4"
EXAMPLE_CONTENT ==
    <<"q", "j", ".", " ", "A", ".", "1", " ", "B", ".", "2", " ",
      "C", ".", "3", " ", "D", ".", "4">>

\* /([A-D]\.)/ matches at position p.
markerAt(chars, p) ==
    /\ p + 1 <= Len(chars)
    /\ chars[p] \in MarkerLetters
    /\ chars[p + 1] = "."

\* content.split(/([A-D]\.)/) from position i on: the piece up to the next
\* match, the match itself (the capturing group), and the rest split on.
RECURSIVE splitFrom(_, _)
splitFrom(chars, i) ==
    LET matches == {p \in i..Len(chars) : markerAt(chars, p)}
    IN  IF matches = {}
        THEN <<SubSeq(chars, i, Len(chars))>>
        ELSE LET p == CHOOSE m \in matches : \A n \in matches : m <= n
             IN  <<SubSeq(chars, i, p - 1), SubSeq(chars, p, p + 1)>>
                 \o splitFrom(chars, p + 2)

splitMarkers(content) == splitFrom(content, 1)

isChoice(question) == question.type \in {SINGLE_CHOICE, MULTIPLE_CHOICE}

\* parts[i + 1]?.trim() || ''
trimmedPart(parts, i) == IF i <= Len(parts) THEN trim(parts[i]) ELSE <<>>

formatChoiceContent_untrimmedStem(question) ==
    LET parts == splitMarkers(question.content)
    IN  IF isChoice(question) /\ Len(parts) > 1
        THEN [stem |-> parts[1],
              options |-> [j \in 1..(Len(parts) \div 2) |->
                  parts[2 * j] \o <<" ">> \o trimmedPart(parts, 2 * j + 1)]]
        ELSE [stem |-> question.content, options |-> <<>>]

formatChoiceContent(question) ==
    LET parts == splitMarkers(question.content)
    IN  IF isChoice(question) /\ Len(parts) > 1
        THEN [stem |-> trim(parts[1]),
              options |-> [j \in 1..(Len(parts) \div 2) |->
                  parts[2 * j] \o <<" ">> \o trimmedPart(parts, 2 * j + 1)]]
        ELSE [stem |-> question.content, options |-> <<>>]

\* QuestionCard.renderContent: the same split, options as label and text.
renderContentSplit(question) ==
    LET parts == splitMarkers(question.content)
    IN  IF isChoice(question) /\ Len(parts) > 1
        THEN [stem |-> trim(parts[1]),
              options |-> [j \in 1..(Len(parts) \div 2) |->
                  [label |-> parts[2 * j],
                   text |-> trimmedPart(parts, 2 * j + 1)]]]
        ELSE [stem |-> question.content, options |-> <<>>]

\* ---- formatSolutionText
OpenParens == {"(", "fw("}
CloseParens == {")", "fw)"}
Digits == {"1"}
TextChars == OpenParens \cup CloseParens \cup Digits \cup {"LF", "x"}
Texts == UNION {[1..n -> TextChars] : n \in 0..MaxText}

\* \d+ at position i: the length of the run of digits.
RECURSIVE digitsAt(_, _)
digitsAt(text, i) ==
    IF i <= Len(text) /\ text[i] \in Digits
    THEN 1 + digitsAt(text, i + 1) ELSE 0

\* The length of the match of [<fw(>\(]\d+[<fw)>\)] at position i, 0 for none.
matchAt(text, i) ==
    IF text[i] \in OpenParens
    THEN LET d == digitsAt(text, i + 1)
         IN  IF d > 0 /\ i + d + 1 <= Len(text)
                /\ text[i + d + 1] \in CloseParens
             THEN d + 2 ELSE 0
    ELSE 0

notAfterLineFeed_always(text, i) == TRUE

\* (?<!\n): no line feed directly before position i.  At the start of the
\* text nothing is before it, so the lookbehind succeeds.
notAfterLineFeed(text, i) == i = 1 \/ text[i - 1] # "LF"

\* text.replace(/(?<!\n)(...)/g, '\n$1'), scanning from position i.
RECURSIVE replaceFrom(_, _)
replaceFrom(text, i) ==
    IF i > Len(text) THEN <<>>
    ELSE LET m == matchAt(text, i)
         IN  IF m > 0 /\ notAfterLineFeed(text, i)
             THEN <<"LF">> \o SubSeq(text, i, i + m - 1)
                  \o replaceFrom(text, i + m)
             ELSE <<text[i]>> \o replaceFrom(text, i + 1)

formatSolutionText(text) == replaceFrom(text, 1)

\* ---- exportToWord: the options markup of one question
\* options.slice(from, to)
slice(options, from, to) ==
    LET last == IF to < Len(options) THEN to ELSE Len(options)
    IN  IF from < last THEN SubSeq(options, from + 1, last) ELSE <<>>

\* optionsHtml as its paragraphs, each the options it joins.
wordOptionsHtml(options) ==
    LET layout == getChoiceLayoutType(options)
    IN  IF Len(options) = 0 THEN <<>>
        ELSE IF layout = "one" THEN <<options>>
        ELSE IF layout = "two"
        THEN <<slice(options, 0, 2), slice(options, 2, 4)>>
        ELSE [i \in 1..Len(options) |-> <<options[i]>>]

\* Option texts of the three layouts, and a choice content made of a stem and
\* one marker and text per option.
WordTexts == {Chars(1), Chars(9), Chars(32)}
WordOptionLists == UNION {[1..n -> WordTexts] : n \in 0..MaxWordOptions}

RECURSIVE contentOf(_, _)
contentOf(texts, i) ==
    IF i > Len(texts) THEN <<>>
    ELSE <<" ">> \o Markers[((i - 1) % 4) + 1] \o texts[i]
         \o contentOf(texts, i + 1)

TextSlots == {"choice", "card", "once", "twice", "word"}

formatChoiceContentApply ==
    /\ input.fn = "choice"
    /\ output["choice"] = <<>>
    /\ output' = [output EXCEPT
           !["choice"] = <<formatChoiceContent(input.question)>>]
    /\ UNCHANGED <<input, apiVars, pageVars, bankVars>>

renderContentSplitApply ==
    /\ input.fn = "choice"
    /\ output["card"] = <<>>
    /\ output' = [output EXCEPT
           !["card"] = <<renderContentSplit(input.question)>>]
    /\ UNCHANGED <<input, apiVars, pageVars, bankVars>>

\* formatSolutionText at save time (multi-user saveSingle).
formatSolutionTextApply ==
    /\ input.fn = "solution"
    /\ output["once"] = <<>>
    /\ output' = [output EXCEPT
           !["once"] = <<formatSolutionText(input.text)>>]
    /\ UNCHANGED <<input, apiVars, pageVars, bankVars>>

\* formatSolutionText again, on the saved content, for display or export.
formatSolutionTextAgain ==
    /\ input.fn = "solution"
    /\ output["once"] # <<>>
    /\ output["twice"] = <<>>
    /\ output' = [output EXCEPT
           !["twice"] = <<formatSolutionText(output["once"][1])>>]
    /\ UNCHANGED <<input, apiVars, pageVars, bankVars>>

exportToWordApply ==
    /\ input.fn = "word"
    /\ output["word"] = <<>>
    /\ output' = [output EXCEPT !["word"] =
           <<wordOptionsHtml(formatChoiceContent(input.question).options)>>]
    /\ UNCHANGED <<input, apiVars, pageVars, bankVars>>

TextInputs ==
    { [fn |-> "choice", question |-> [type |-> t, content |-> c]] :
          t \in QuestionTypes, c \in Contents \cup {EXAMPLE_CONTENT} }
    \cup { [fn |-> "solution", text |-> t] : t \in Texts }
    \cup { [fn |-> "word",
            question |-> [type |-> SINGLE_CHOICE,
                          content |-> <<"x">> \o contentOf(texts, 1)]] :
               texts \in WordOptionLists }

InitText ==
    /\ InitApi
    /\ app = "multi"
    /\ InitPage
    /\ InitBank
    /\ input \in TextInputs
    /\ output = [s \in TextSlots |-> <<>>]

NextText ==
    \/ formatChoiceContentApply
    \/ renderContentSplitApply
    \/ formatSolutionTextApply
    \/ formatSolutionTextAgain
    \/ exportToWordApply

SpecText == InitText /\ [][NextText]_vars

\* --------------------------------------------- claims about question text
\* The positions of the option markers of a content, counted directly.
MarkerPositions(content) ==
    {i \in 1..(Len(content) - 1) :
         content[i] \in MarkerLetters /\ content[i + 1] = "."}

\* The j-th smallest position.
NthMarker(content, j) ==
    CHOOSE p \in MarkerPositions(content) :
        Cardinality({q \in MarkerPositions(content) : q < p}) = j - 1

\* The text after the j-th marker, up to the next marker or the end.
TextAfterMarker(content, j) ==
    LET k == Cardinality(MarkerPositions(content))
        from == NthMarker(content, j) + 2
        to == IF j < k THEN NthMarker(content, j + 1) - 1 ELSE Len(content)
    IN  IF from <= to THEN SubSeq(content, from, to) ELSE <<>>

ChoiceSplitDone ==
    /\ input.fn = "choice"
    /\ isChoice(input.question)
    /\ output["choice"] # <<>>
    /\ output["card"] # <<>>

\* C21: for a choice question whose content has k >= 1 option markers, the
\* split gives the trimmed text before the first marker as the stem and k
\* options, one per marker in order; with no marker it gives the whole
\* content as the stem and no options.  The example content gives its stem,
\* four options and the four-per-row layout.
C21_SplitOnMarkers ==
    ChoiceSplitDone =>
        LET content == input.question.content
            k == Cardinality(MarkerPositions(content))
            export == output["choice"][1]
            card == output["card"][1]
        IN  /\ Len(export.options) = k
            /\ Len(card.options) = k
            /\ k = 0 => export.stem = content /\ card.stem = content
            /\ k >= 1 =>
                 /\ export.stem =
                        trim(SubSeq(content, 1, NthMarker(content, 1) - 1))
                 /\ card.stem = export.stem
                 /\ \A j \in 1..k :
                        LET p == NthMarker(content, j)
                            text == trim(TextAfterMarker(content, j))
                        IN  /\ export.options[j]
                                = <<content[p], ".", " ">> \o text
                            /\ card.options[j].label = <<content[p], ".">>
                            /\ card.options[j].text = text
            /\ content = EXAMPLE_CONTENT =>
                 /\ export.stem = <<"q", "j", ".">>
                 /\ k = 4
                 /\ layoutColumns(getChoiceLayoutType(export.options)) = 4
                 /\ gridCols(card.options).md = 4

C21_Witness ==
    /\ ChoiceSplitDone
    /\ input.question.content = EXAMPLE_CONTENT
    /\ Len(output["choice"][1].options) = 4
    /\ output["choice"][1].options[4] = <<"D", ".", " ", "4">>

\* A sub-part marker starts at position i of the text.
MarkerAt(text, i) ==
    /\ text[i] \in OpenParens
    /\ \E j \in (i + 2)..Len(text) :
           /\ text[j] \in CloseParens
           /\ \A d \in (i + 1)..(j - 1) : text[d] \in Digits

AtLineStart(text, i) == i = 1 \/ text[i - 1] = "LF"

\* The text with a line feed put before each marker that is not at the start
\* of a line, and nothing else changed.
RECURSIVE Reflowed(_, _)
Reflowed(text, i) ==
    IF i > Len(text) THEN <<>>
    ELSE (IF MarkerAt(text, i) /\ ~AtLineStart(text, i)
          THEN <<"LF">> ELSE <<>>)
         \o <<text[i]>> \o Reflowed(text, i + 1)

\* C22: formatSolutionText puts a line break before every parenthesized
\* sub-part number that is not at the start of a line, nothing before one that
\* is at the start of a line (the start of the text included), and changes no
\* other character.
C22_BreakOnlyInsideLines ==
    (input.fn = "solution" /\ output["once"] # <<>>)
        => output["once"][1] = Reflowed(input.text, 1)

\* C27: formatSolutionText applied to its own result changes nothing.
C27_ReflowIdempotent ==
    (input.fn = "solution" /\ output["twice"] # <<>>)
        => output["twice"][1] = output["once"][1]

\* A text with a marker inside a line was reflowed, then reflowed again.
C27_Witness ==
    /\ input.fn = "solution"
    /\ input.text = <<"x", "(", "1", ")">>
    /\ output["once"] = << <<"x", "LF", "(", "1", ")">> >>
    /\ output["twice"] # <<>>

RECURSIVE Flatten(_)
Flatten(paragraphs) ==
    IF paragraphs = <<>> THEN <<>>
    ELSE Head(paragraphs) \o Flatten(Tail(paragraphs))

\* C28: the options markup of the Word export holds every option of
\* formatChoiceContent exactly once, in order, for every layout and every
\* number of options.
C28_WordKeepsEveryOption ==
    (input.fn = "word" /\ output["word"] # <<>>)
        => Flatten(output["word"][1])
               = formatChoiceContent(input.question).options

\* ------------------------------------ claims about overlapping store writes
WriteOps == {"saveQuestion", "deleteQuestion"}

WriteSettled == lastCall.status = "ok" /\ lastCall.call.op \in WriteOps

\* C24: store writes of one tab that overlap in time are serialized: the list
\* a write call read is the list stored when it writes (no other write came
\* between its read and its write), so the list it leaves is its operation
\* applied to the result of every write that completed before it, and no
\* update is lost.
C24_OverlappingWritesSerialized ==
    WriteSettled =>
        /\ lastCall.call.all = QuestionsBefore
        /\ StoredQuestions =
               IF lastCall.call.op = "saveQuestion"
               THEN upsert(QuestionsBefore, lastCall.call.question)
               ELSE filter(QuestionsBefore, lastCall.call.id,
                           lastCall.call.operator)

\* Two saves of distinct fresh ids were both started before either completed:
\* the second has just been written while the first one's record is kept.
C24_Witness ==
    /\ WriteSettled
    /\ lastCall.call.op = "saveQuestion"
    /\ Len(QuestionsBefore) = 1
    /\ Len(StoredQuestions) = 2
    /\ StoredQuestions[1] = lastCall.call.question
    /\ StoredQuestions[2] = QuestionsBefore[1]
    /\ StoredQuestions[1].id # StoredQuestions[2].id
    /\ lastCall.call.racing

\* ------------------------------------------------- the paper builder (App)
\* Questions that earlier saves left in the single-user bank.
MaxBank == 2
BankIds == {"q1", "q2", "q3"}

BankQuestion(id) == questionOf(newDraft(id, "file", ImageData, OcrItem))

BankLists ==
    { [k \in 1..Len(ids) |-> BankQuestion(ids[k])] :
        ids \in { s \in UNION { [1..n -> BankIds] : n \in 0..MaxBank } :
                    \A i, j \in 1..Len(s) : s[i] = s[j] => i = j } }

\* getQuestions of utils/storage.
getQuestions(storage) == parseOrEmpty(storage[STORAGE_KEY])

\* deleteQuestion of utils/storage: write back the records of another id.
deleteStored(id) ==
    setItem(STORAGE_KEY, SelectSeq(getQuestions(localStorage),
                                   LAMBDA q : q.id # id))

\* questions.filter(q => selectedQuestions.has(q.id))
selectedOf(list, selected) == SelectSeq(list, LAMBDA q : q.id \in selected)

\* A card is clicked in the bank, or the remove button of the builder.
toggleSelection(q) ==
    /\ app = "single"
    /\ \E k \in 1..Len(questions) : questions[k] = q
    /\ selectedQuestions' = IF q.id \in selectedQuestions
                            THEN selectedQuestions \ {q.id}
                            ELSE selectedQuestions \cup {q.id}
    /\ lastEvent' = Event("toggleSelection", 0, "", FALSE)
    /\ UNCHANGED <<app, uploadFiles, isUploading, batch, ocrCalls,
                   processedResults, rendered, armed, typesets, retryCalls,
                   saving, clearTimer, notified, questions, apiVars, pureVars>>

\* The delete button of a card: deleteQuestion(id), then
\* setQuestions(getQuestions()).
onDelete(id) ==
    /\ app = "single"
    /\ \E k \in 1..Len(questions) : questions[k].id = id
    /\ localStorage' = deleteStored(id)
    /\ questions' = getQuestions(localStorage')
    /\ lastEvent' = Event("onDelete", 0, "", FALSE)
    /\ UNCHANGED <<app, uploadFiles, isUploading, batch, ocrCalls,
                   processedResults, rendered, armed, typesets, retryCalls,
                   saving, clearTimer, notified, selectedQuestions, pending,
                   lastCall, pureVars>>

\* The remove-all button of the builder.
removeAll ==
    /\ app = "single"
    /\ selectedQuestions' = {}
    /\ lastEvent' = Event("removeAll", 0, "", FALSE)
    /\ UNCHANGED <<app, uploadFiles, isUploading, batch, ocrCalls,
                   processedResults, rendered, armed, typesets, retryCalls,
                   saving, clearTimer, notified, questions, apiVars, pureVars>>

\* disabled={selectedQuestions.size === 0} of both export buttons.
exportDisabled == Cardinality(selectedQuestions) = 0

\* An export button is clicked; idx of the event is the number of questions
\* handed to exportToPDF or exportToWord.
export(kind) ==
    /\ app = "single"
    /\ ~exportDisabled
    /\ lastEvent' = Event(kind, Len(selectedOf(questions, selectedQuestions)),
                          "", FALSE)
    /\ UNCHANGED <<app, uploadFiles, isUploading, batch, ocrCalls,
                   processedResults, rendered, armed, typesets, retryCalls,
                   saving, clearTimer, notified, bankVars, apiVars, pureVars>>

exportToPDFClick == export("exportToPDF")
exportToWordClick == export("exportToWord")

\* The bank page mounted over a stored bank: the effect has read it.
InitBuilder ==
    /\ \E list \in BankLists :
           /\ localStorage = [k \in StorageKeys |->
                                 IF k = STORAGE_KEY THEN <<list>> ELSE <<>>]
           /\ questions = list
    /\ selectedQuestions = {}
    /\ pending = <<>>
    /\ lastCall = NoCall
    /\ app = "single"
    /\ InitPage
    /\ InitPure

NextBuilder ==
    \/ \E id \in BankIds : toggleSelection(BankQuestion(id))
    \/ \E id \in BankIds : onDelete(id)
    \/ removeAll
    \/ exportToPDFClick
    \/ exportToWordClick

SpecBuilder == InitBuilder /\ [][NextBuilder]_vars

\* ------------------------------------------------ claims about the builder
ExportInvoked == lastEvent.kind \in {"exportToPDF", "exportToWord"}

\* C23: whatever questions were selected, deselected and deleted, exportToPDF
\* and exportToWord are never invoked with zero questions to export.
C23_NoEmptyExport == ExportInvoked => lastEvent.idx > 0


\* ------------------------------------- a new batch after the list was cleared
\* Batches the user starts after the first ones, while calls of the earlier
\* drafts may still be in flight.
MaxRefills == 1

\* The results of a later batch of one file: a draft with an id of its own.
RefillResults(n) == { <<newDraft(DraftId(n), "file", ImageData, OcrItem)>> }

draftsRefill(results) ==
    /\ app = "single"
    /\ ~RenderPending
    /\ batch.started >= MaxBatches
    /\ batch.started < MaxBatches + MaxRefills
    /\ Len(results) > 0
    /\ Len(processedResults) + Len(results) <= MaxDrafts
    /\ batch' = [batch EXCEPT !.started = @ + 1]
    /\ processedResults' = appendResults(processedResults, results)
    /\ retryCalls' = retryCalls \o [i \in 1..Len(results) |-> 0]
    /\ notified' = <<MSG_RECOGNIZED>>
    /\ lastEvent' = Event("startOCR", 0, "results", FALSE)
    /\ UNCHANGED <<app, uploadFiles, isUploading, ocrCalls, rendered,
                   armed, typesets, saving, clearTimer, apiVars, pureVars,
                   bankVars>>

NextRefill ==
    \/ \E results \in ArrivingResults(batch.started + 1) :
           draftsArrive(results)
    \/ \E results \in RefillResults(batch.started + 1) :
           draftsRefill(results)
    \/ render
    \/ \E idx \in 1..MaxDrafts : typesetStart(idx)
    \/ \E t \in BagToSet(typesets), outcome \in TypesetOutcomes :
           typesetSettles(t, outcome)
    \/ \E call \in BagToSet(ocrCalls), outcome \in RetryOutcomes :
           retryReturns(call, outcome)
    \/ clearResults

SpecRefill == InitDraft /\ [][NextRefill]_vars

\* ------------------------------------------- claims about retries and clears
\* The retry call that just returned was started for a draft that has since
\* been removed from the list.
RetryOfRemovedDraftReturned ==
    lastEvent'.kind = "retryReturns" /\ lastEvent'.gone

\* C26: the result of a retry call is applied only to the draft whose
\* rendering failure started it: when that draft was removed while the call
\* was in flight, the call's completion changes no draft of the list.
C26_RetryAppliedToItsDraftOnly ==
    [][RetryOfRemovedDraftReturned => processedResults' = processedResults]_vars


\* --------------------------------------------- the timers of the intake page
\* The timers that are armed: the 50 ms timer of each mounted LatexRenderer
\* and the 1500 ms timer saveSingle sets once every draft is saved.
ArmedTimers ==
    { [kind |-> "typeset", idx |-> i] : i \in armed }
        \cup (IF clearTimer THEN {[kind |-> "clear", idx |-> 0]} ELSE {})

\* () => setProcessedResults([]) of the timer saveSingle sets.
clearTimerFires ==
    /\ ~RenderPending
    /\ clearTimer' = FALSE
    /\ processedResults' = <<>>
    /\ retryCalls' = <<>>
    /\ ocrCalls' = LET remove(call) ==
                          IF call.by = "retry"
                          THEN [call EXCEPT !.gone = TRUE] ELSE call
                   IN  MapBag(ocrCalls, remove)
    /\ typesets' = LET remove(t) == [t EXCEPT !.gone = TRUE]
                   IN  MapBag(typesets, remove)
    /\ notified' = <<>>
    /\ lastEvent' = Event("clearTimerFires", 0, "", FALSE)
    /\ UNCHANGED <<app, uploadFiles, isUploading, batch, rendered, armed,
                   saving, apiVars, pureVars, bankVars>>

\* The event loop runs the callback of an armed timer.
timerRuns(timer) ==
    IF timer.kind = "clear" THEN clearTimerFires ELSE typesetStart(timer.idx)

\* What happens without the user: renders, timers, settled promises.
pageRuns ==
    \/ render
    \/ \E timer \in ArmedTimers : timerRuns(timer)
    \/ \E t \in BagToSet(typesets), outcome \in TypesetOutcomes :
           typesetSettles(t, outcome)
    \/ \E call \in BagToSet(ocrCalls), outcome \in RetryOutcomes :
           retryReturns(call, outcome)

NextAutoClear ==
    \/ \E results \in ArrivingResults(batch.started + 1) :
           draftsArrive(results)
    \/ render
    \/ \E timer \in ArmedTimers : timerRuns(timer)
    \/ \E t \in BagToSet(typesets), outcome \in TypesetOutcomes :
           typesetSettles(t, outcome)
    \/ \E call \in BagToSet(ocrCalls), outcome \in RetryOutcomes :
           retryReturns(call, outcome)
    \/ \E idx \in 1..MaxDrafts : saveSingle(idx)

\* The user saves drafts and never presses the clear button.  Every render,
\* timer callback and promise continuation that is due is eventually run;
\* the user may stop acting at any time.
SpecAutoClear ==
    InitDraft /\ [][NextAutoClear]_vars /\ WF_vars(pageRuns)

\* -------------------------------------------- claims about the auto-clear
AllDraftsSaved ==
    /\ Len(processedResults) > 0
    /\ \A i \in 1..Len(processedResults) : processedResults[i].isSaved

ClearedByTimer == processedResults = <<>>

\* C29: once every draft of the list has been saved, the list is eventually
\* cleared to empty without the clear button being pressed.
C29_SavedListEventuallyCleared == AllDraftsSaved ~> ClearedByTimer


\* ------------------------------------------------- a batch that is left alone
\* What a started batch does without the user: file reads and performOCR
\* calls settle.
batchRuns ==
    \/ \E outcome \in ReadOutcomes : readSettles(outcome)
    \/ \E call \in BagToSet(ocrCalls), outcome \in BatchOutcomes :
           ocrSettles(call, outcome)

\* Every file read and every performOCR call eventually completes.
SpecBatchFair == SpecBatch /\ WF_vars(batchRuns)

\* C30: every started batch eventually ends with isUploading reset to false,
\* whatever the outcome of each file.
C30_BatchEventuallyEnds == isUploading ~> ~isUploading


\* ------------------------------------------ saving drafts, in both versions
\* The user logged in to the multi-user App.
CurrentUser == [id |-> "u1", role |-> "user"]

\* The characters an item text stands for.
ItemChars(text) == IF text = OcrItem.text THEN <<"x", "(", "1", ")">> ELSE <<>>

\* The results of a multi-user batch after b earlier ones: one draft per
\* file.
MultiResults(b) ==
    { [k \in 1..n |->
          newDraft_multi(DraftId(b * MaxDrafts + k), "file", OcrItem)] :
          n \in 1..MaxDrafts }

\* The end of a multi-user startOCR batch: setProcessedResults(results).
resultsArrive_multi(results) ==
    /\ app = "multi"
    /\ ~RenderPending
    /\ ~MicrotaskQueued
    /\ batch.started < MaxBatches
    /\ batch' = [batch EXCEPT !.started = @ + 1]
    /\ processedResults' = results
    /\ notified' = <<>>
    /\ lastEvent' = Event("startOCR", 0, "results", FALSE)
    /\ UNCHANGED <<app, uploadFiles, isUploading, ocrCalls, rendered, armed,
                   typesets, retryCalls, saving, clearTimer, apiVars,
                   pureVars, bankVars>>

\* onChange of the tags input of a draft: the draft of the render is
\* changed in place and the list of the render is set.
typeTags_multi(idx) ==
    /\ app = "multi"
    /\ TaskMayRun
    /\ idx \in 1..Len(rendered)
    /\ rendered[idx].tags # TagsTyped
    /\ processedResults' = [rendered EXCEPT ![idx].tags = TagsTyped]
    /\ Commit(processedResults', typesets)
    /\ notified' = <<>>
    /\ lastEvent' = Event("typeTags", idx, "", FALSE)
    /\ UNCHANGED <<app, uploadFiles, isUploading, batch, ocrCalls, retryCalls,
                   saving, clearTimer, apiVars, pureVars, bankVars>>

\* newQuestion of the multi-user saveSingle, in the fields the store reads.
questionOf_multi(res, user) ==
    [id |-> res.id, userId |-> user.id,
     content |-> IF res.type = SOLUTION
                 THEN formatSolutionText(ItemChars(res.text))
                 ELSE ItemChars(res.text)]

\* The multi-user saveSingle up to await api.saveQuestion(newQuestion).  The
\* button is disabled once the draft of the render is saved.
saveSingle_multi(idx) ==
    /\ app = "multi"
    /\ TaskMayRun
    /\ idx \in 1..Len(rendered)
    /\ ~rendered[idx].isSaved
    /\ LET res == rendered[idx]
       IN  IF trim(res.tags) = <<>>
           THEN /\ lastEvent' = Event("saveSingle", idx, "return", FALSE)
                /\ UNCHANGED <<pending, saving>>
           ELSE /\ Len(pending) < MaxPending
                /\ pending' = Append(pending,
                       [NewCall("saveQuestion", DELAY_FETCH) EXCEPT
                           !.question = questionOf_multi(res, CurrentUser),
                           !.racing = WriteInFlight, !.draft = idx])
                /\ saving' = saving \cup {idx}
                /\ lastEvent' = Event("saveSingle", idx, "await", FALSE)
    /\ lastCall' = NoCall
    /\ notified' = <<>>
    /\ UNCHANGED <<app, uploadFiles, isUploading, batch, ocrCalls,
                   processedResults, rendered, armed, typesets, retryCalls,
                   clearTimer, localStorage, pureVars, bankVars>>

\* lastCall of a write call that settles now.
SettledWrite(i) ==
    [ call |-> pending[i], status |-> "ok", error |-> "", value |-> <<>>,
      reads |-> pending[i].reads, writes |-> {DB_QUESTIONS},
      before |-> localStorage ]

\* The calls left once call i has settled and refreshData has started its
\* fetchAllQuestions.
RefreshAfter(i) ==
    Append(RemoveAt(pending, i), NewCall("fetchAllQuestions", DELAY_FETCH))

StillSaving(calls) ==
    { calls[j].draft : j \in { k \in 1..Len(calls) :
                                 calls[k].op = "saveQuestion" } }

\* api.saveQuestion writes and resolves; saveSingle resumes: the draft at
\* its index is marked saved and refreshData is called.
saveSingleResumes(i) ==
    /\ app = "multi"
    /\ pending[i].pc = "body"
    /\ pending[i].op = "saveQuestion"
    /\ localStorage' = setItem(DB_QUESTIONS,
                               upsert(pending[i].all, pending[i].question))
    /\ lastCall' = SettledWrite(i)
    /\ pending' = RefreshAfter(i)
    /\ saving' = StillSaving(pending')
    /\ processedResults' =
           [k \in 1..Len(processedResults) |->
               IF k = pending[i].draft
               THEN [processedResults[k] EXCEPT !.isSaved = TRUE]
               ELSE processedResults[k]]
    /\ notified' = <<>>
    /\ lastEvent' = Event("saveSingle", pending[i].draft, "saved", FALSE)
    /\ UNCHANGED <<app, uploadFiles, isUploading, batch, ocrCalls, rendered,
                   armed, typesets, retryCalls, clearTimer, pureVars,
                   bankVars>>

\* The delete button of a card of the multi-user bank, up to
\* await api.deleteQuestion(id, currentUser).
onDelete_multi(id) ==
    /\ app = "multi"
    /\ TaskMayRun
    /\ \E k \in 1..Len(questions) : questions[k].id = id
    /\ Len(pending) < MaxPending
    /\ pending' = Append(pending,
           [NewCall("deleteQuestion", DELAY_FETCH) EXCEPT
               !.id = id, !.operator = CurrentUser, !.racing = WriteInFlight])
    /\ lastCall' = NoCall
    /\ notified' = <<>>
    /\ lastEvent' = Event("onDelete", 0, "await", FALSE)
    /\ UNCHANGED <<app, uploadFiles, isUploading, batch, ocrCalls,
                   processedResults, rendered, armed, typesets, retryCalls,
                   saving, clearTimer, localStorage, pureVars, bankVars>>

\* api.deleteQuestion writes and resolves; the handler calls refreshData.
onDeleteResumes(i) ==
    /\ app = "multi"
    /\ pending[i].pc = "body"
    /\ pending[i].op = "deleteQuestion"
    /\ localStorage' = setItem(DB_QUESTIONS,
           filter(pending[i].all, pending[i].id, pending[i].operator))
    /\ lastCall' = SettledWrite(i)
    /\ pending' = RefreshAfter(i)
    /\ notified' = <<>>
    /\ lastEvent' = Event("onDelete", 0, "deleted", FALSE)
    /\ UNCHANGED <<app, uploadFiles, isUploading, batch, ocrCalls,
                   processedResults, rendered, armed, typesets, retryCalls,
                   saving, clearTimer, pureVars, bankVars>>

\* A delay of the store elapses.
delayElapses(i) ==
    /\ timerFires(i)
    /\ UNCHANGED <<pageVars, pureVars, bankVars>>

\* fetchAllQuestions resolves: into saveQuestion or deleteQuestion that
\* awaits it, or into refreshData, which sets the question list.
fetchResolves(i) ==
    /\ fetchAllQuestionsResume(i)
    /\ questions' = IF pending[i].op = "fetchAllQuestions"
                    THEN parseOrEmpty(getItem(DB_QUESTIONS))
                    ELSE questions
    /\ UNCHANGED <<pageVars, pureVars, selectedQuestions>>

InitSave ==
    /\ InitApi
    /\ app \in {"single", "multi"}
    /\ InitPage
    /\ InitBank
    /\ InitPure

NextSave ==
    \/ \E results \in ArrivingResults(batch.started + 1) :
           draftsArrive(results)
    \/ \E results \in MultiResults(batch.started) :
           resultsArrive_multi(results)
    \/ render
    \/ \E idx \in 1..MaxDrafts : saveSingle(idx)
    \/ \E idx \in 1..MaxDrafts : typeTags_multi(idx)
    \/ \E idx \in 1..MaxDrafts : saveSingle_multi(idx)
    \/ \E i \in 1..Len(pending) : delayElapses(i)
    \/ \E i \in 1..Len(pending) : fetchResolves(i)
    \/ \E i \in 1..Len(pending) : saveSingleResumes(i)
    \/ \E k \in 1..Len(questions) : onDelete(questions[k].id)
    \/ \E k \in 1..Len(questions) : onDelete_multi(questions[k].id)
    \/ \E i \in 1..Len(pending) : onDeleteResumes(i)
    \/ clearResults

SpecSave == InitSave /\ [][NextSave]_vars

\* ------------------------------------------- claims about stored identifiers
NoTwoOfOneId(list) ==
    \A i, j \in 1..Len(list) : list[i].id = list[j].id => i = j

\* C25: whatever drafts are saved, saved again before the page has caught up,
\* and whatever questions are removed, neither stored question list ever
\* holds two records with one identifier.
C25_NoDuplicateIds ==
    /\ NoTwoOfOneId(parseOrEmpty(getItem(DB_QUESTIONS)))
    /\ NoTwoOfOneId(parseOrEmpty(getItem(STORAGE_KEY)))

\* The save button of one draft was clicked twice before the first call
\* completed, and the second call has now written over the first one's
\* record.
C25_Witness ==
    /\ app = "multi"
    /\ WriteSettled
    /\ lastCall.call.op = "saveQuestion"
    /\ lastCall.call.racing
    /\ Len(QuestionsBefore) = 1
    /\ QuestionsBefore[1].id = lastCall.call.question.id
    /\ Len(StoredQuestions) = 1


====
